---------------------------- MODULE Spec2Model ----------------------------
(***************************************************************************)
(* A model of the agent playground repository: the agent builder          *)
(* (src/src/utils/agent_builder.py), the playground REPL                  *)
(* (src/playground.py), the retry helper (src/src/utils/helpers.py), the  *)
(* parallel execution example (src/examples/advanced_patterns.py) and the *)
(* data tools (src/src/tools/data_tools.py).                              *)
(*                                                                         *)
(* Strings that the code inspects character by character are given by     *)
(* their characters (Chars); text that the code only passes on is a tuple *)
(* of words.  Classes are records [class |-> name], so that __name__ and  *)
(* the name-to-class maps of load_agent are real conversions.             *)
(***************************************************************************)
EXTENDS Integers, Sequences, FiniteSets, TLC

VARIABLES
    created_agents,        \* AgentBuilder.created_agents: name -> DynamicAgent
    files,                 \* generated/agents/<name>.json: name -> JSON text
    now,                   \* the clock read by datetime.now()
    agents,                \* AgentPlayground.agents: name -> registry entry
    current_agent,         \* AgentPlayground.current_agent
    conversation_history,  \* AgentPlayground.conversation_history
    running,               \* the while True loop of AgentPlayground.run is alive
    last,                  \* the operation handled last: its input and outcome
    retry,                 \* one call of retry_async: its locals and what it did
    par,                   \* one run of parallel_agent_execution
    filt,                  \* one use of DataTools.filter_data
    dtool,                 \* one call of another DataTools method
    tracker,               \* a ConversationTracker and the call made on it
    observer,              \* an AgentObserver and the block run under it
    fileops,               \* a FileOperationsTool, its directory and the call made on it
    agentrun               \* the calls of BaseAgent.run made and how each ended

builderVars == <<created_agents, files, now>>
playgroundVars == <<agents, current_agent, conversation_history, running>>
vars == <<created_agents, files, now, agents, current_agent,
          conversation_history, running, last, retry, par, filt,
          dtool, tracker, observer, fileops, agentrun>>
toolVars == <<dtool, tracker, observer, fileops, agentrun>>

\* What the builder and the playground leave alone.
notPlayground == <<retry, par, filt, toolVars>>
\* What retry_async leaves alone, and so on.
notRetry == <<created_agents, files, now, agents, current_agent,
              conversation_history, running, last, par, filt, toolVars>>
notPar == <<created_agents, files, now, agents, current_agent,
            conversation_history, running, last, retry, filt, toolVars>>
notFilt == <<created_agents, files, now, agents, current_agent,
             conversation_history, running, last, retry, par, toolVars>>
notDataTools == <<created_agents, files, now, agents, current_agent,
                  conversation_history, running, last, retry, par, filt,
                  tracker, observer, fileops, agentrun>>
notTracker == <<created_agents, files, now, agents, current_agent,
                conversation_history, running, last, retry, par, filt,
                dtool, observer, fileops, agentrun>>
notObserver == <<created_agents, files, now, agents, current_agent,
                 conversation_history, running, last, retry, par, filt,
                 dtool, tracker, fileops, agentrun>>
notFileOps == <<created_agents, files, now, agents, current_agent,
                conversation_history, running, last, retry, par, filt,
                dtool, tracker, observer, agentrun>>
notAgentRun == <<created_agents, files, now, agents, current_agent,
                 conversation_history, running, last, retry, par, filt,
                 dtool, tracker, observer, fileops>>

(***************************************************************************)
(* Bounds of the model.                                                    *)
(***************************************************************************)
MaxClock == 2
MaxHistory == 2
MaxCustomTools == 1

(***************************************************************************)
(* Python helpers.                                                         *)
(***************************************************************************)
None == [cls |-> "None"]

\* The characters of the strings the code matches against a pattern.
Chars(s) ==
    CASE s = "chat"     -> <<"c", "h", "a", "t">>
      [] s = "research" -> <<"r", "e", "s", "e", "a", "r", "c", "h">>
      [] s = "analyst"  -> <<"a", "n", "a", "l", "y", "s", "t">>
      [] s = "bot"      -> <<"b", "o", "t">>
      [] s = "b_2"      -> <<"b", "_", "2">>
      [] s = "9x"       -> <<"9", "x">>
      [] s = "a-b"      -> <<"a", "-", "b">>
      [] s = "_x"       -> <<"_", "x">>
      [] s = "t1"       -> <<"t", "1">>
      [] s = "1t"       -> <<"1", "t">>
      [] s = ""         -> <<>>

Letters == {"a", "b", "c", "e", "h", "l", "n", "o", "r", "s", "t", "x", "y"}
Digits == {"1", "2", "9"}

NameMatchLeadingAny(s) ==
    LET c == Chars(s)
    IN  /\ Len(c) >= 1
        /\ \A i \in 1..Len(c) : c[i] \in Letters \cup Digits \cup {"_"}

\* re.match(r'^[a-zA-Z][a-zA-Z0-9_]*$', s) on a stripped string.
NameMatch(s) ==
    LET c == Chars(s)
    IN  /\ Len(c) >= 1
        /\ c[1] \in Letters
        /\ \A i \in 2..Len(c) : c[i] \in Letters \cup Digits \cup {"_"}

\* int(s): IsInt(s) when it returns, and then its value; ValueError otherwise.
IsInt(s) == s \in {"0", "1", "2", "3", "4", "9", "-1"}
ParseInt(s) ==
    CASE s = "0"  -> 0
      [] s = "1"  -> 1
      [] s = "2"  -> 2
      [] s = "3"  -> 3
      [] s = "4"  -> 4
      [] s = "9"  -> 9
      [] s = "-1" -> -1

\* seq[i] of a Python list, i zero-based, negative i counting from the end.
PyIndexOk(seq, i) == i >= -Len(seq) /\ i < Len(seq)
PyIndex(seq, i) == IF i >= 0 THEN seq[i + 1] ELSE seq[Len(seq) + i + 1]

\* input(...).strip().lower() of the y/n prompts.
StripLower(s) ==
    CASE s = "Y"   -> "y"
      [] s = " y " -> "y"
      [] s = "N"   -> "n"
      [] OTHER     -> s

\* parts[0].lower() of the command words.
Lower(w) ==
    CASE w = "/QUIT"   -> "/quit"
      [] w = "/Q"      -> "/q"
      [] w = "/Switch" -> "/switch"
      [] OTHER         -> w

(***************************************************************************)
(* Classes: dependencies and output types.                                 *)
(***************************************************************************)
Class(n) == [class |-> n]
TypeName(t) == t.class                   \* t.__name__

BaseDependencies == Class("BaseDependencies")
ChatDependencies == Class("ChatDependencies")
ResearchDependencies == Class("ResearchDependencies")
DataDependencies == Class("DataDependencies")
ToolDependencies == Class("ToolDependencies")
AgentResult == Class("AgentResult")
ChatResponse == Class("ChatResponse")
ResearchResult == Class("ResearchResult")
AnalysisResult == Class("AnalysisResult")
ToolResult == Class("ToolResult")

DefaultModel == "openai:gpt-4o"          \* settings.default_model

(***************************************************************************)
(* DynamicAgent: BaseAgent's fields, the custom tools and the stored       *)
(* configuration.  `clock` is the reading of datetime.now().               *)
(***************************************************************************)
DynamicAgent(name, instructions, model, deps_type, output_type, tools, clock) ==
    [cls |-> "DynamicAgent",
     name |-> name,
     model |-> IF model = "" THEN DefaultModel ELSE model,
     instructions |-> instructions,
     deps_type |-> deps_type,
     output_type |-> output_type,
     custom_tools |-> tools,
     config |-> [name |-> name,
                 instructions |-> instructions,
                 model |-> IF model = "" THEN "openai:gpt-4o" ELSE model,
                 deps_type |-> TypeName(deps_type),
                 output_type |-> TypeName(output_type),
                 tools |-> tools,
                 created_at |-> clock]]

(***************************************************************************)
(* JSON: json.dump writes the members of the dictionary in order,         *)
(* json.load builds the dictionary back, a later member replacing an       *)
(* earlier one of the same key.                                            *)
(***************************************************************************)
ConfigKeys == <<"name", "instructions", "model", "deps_type", "output_type",
                "tools", "created_at">>

JsonDump(config) == [i \in 1..Len(ConfigKeys) |-> <<ConfigKeys[i], config[ConfigKeys[i]]>>]

JsonLoad(text) ==
    [k \in {text[i][1] : i \in DOMAIN text} |->
        LET i == CHOOSE i \in DOMAIN text :
                     /\ text[i][1] = k
                     /\ \A j \in DOMAIN text : text[j][1] = k => j <= i
        IN  text[i][2]]

(***************************************************************************)
(* Dictionaries.                                                           *)
(***************************************************************************)
DictSet(d, k, v) == [x \in DOMAIN d \cup {k} |-> IF x = k THEN v ELSE d[x]]
DictDel(d, k) == [x \in DOMAIN d \ {k} |-> d[x]]
EmptyDict == [x \in {} |-> None]

(***************************************************************************)
(* AgentBuilder.                                                           *)
(***************************************************************************)
TemplateNames == <<"chat", "specialist", "researcher", "analyst">>

agent_templates ==
    [chat |-> [instructions |-> "chat template instructions",
               deps_type |-> ChatDependencies,
               output_type |-> ChatResponse,
               suggested_tools |-> <<"echo", "format">>],
     specialist |-> [instructions |-> "specialist template instructions",
                     deps_type |-> BaseDependencies,
                     output_type |-> AgentResult,
                     suggested_tools |-> <<"counter", "format">>],
     researcher |-> [instructions |-> "researcher template instructions",
                     deps_type |-> ResearchDependencies,
                     output_type |-> ResearchResult,
                     suggested_tools |-> <<"echo", "counter">>],
     analyst |-> [instructions |-> "analyst template instructions",
                  deps_type |-> DataDependencies,
                  output_type |-> AnalysisResult,
                  suggested_tools |-> <<"format", "counter">>]]

ScratchTemplate ==
    [instructions |-> "",
     deps_type |-> BaseDependencies,
     output_type |-> AgentResult,
     suggested_tools |-> <<>>]

Models == <<"openai:gpt-4o", "openai:gpt-3.5-turbo", "anthropic:claude-3-sonnet">>
DepsTypes == <<BaseDependencies, ChatDependencies, ResearchDependencies, DataDependencies>>
OutputTypes == <<AgentResult, ChatResponse, ResearchResult, AnalysisResult>>

\* AgentBuilder._create_tool_config
CreateToolConfig(tool_type) ==
    CASE tool_type = "echo" ->
             [name |-> "echo_tool", description |-> "Echoes back the input message",
              type |-> "echo", parameters |-> <<"message">>]
      [] tool_type = "format" ->
             [name |-> "text_formatter", description |-> "Formats text",
              type |-> "format", parameters |-> <<"text", "format_type">>]
      [] tool_type = "counter" ->
             [name |-> "counter", description |-> "A simple counter",
              type |-> "counter", parameters |-> <<"action">>]

\* AgentBuilder._create_custom_tool on the answers t = [name, description, type]:
\* the tool descriptor, or None for an invalid tool name.
CreateCustomTool(t) ==
    IF ~NameMatch(t.name)
    THEN None
    ELSE [name |-> t.name,
          description |-> IF t.description = "" THEN "Custom tool" ELSE t.description,
          type |-> CASE t.type = "1" -> "echo"
                     [] t.type = "2" -> "format"
                     [] t.type = "3" -> "counter"
                     [] OTHER -> "echo",
          parameters |-> <<>>]

\* choice - 1 picked from a list, or the default when int() or the index fails.
Pick(seq, choice, default) ==
    IF ~IsInt(choice) THEN default
    ELSE IF PyIndexOk(seq, ParseInt(choice) - 1) THEN PyIndex(seq, ParseInt(choice) - 1)
    ELSE default

\* AgentBuilder._save_agent_config: the write may fail, which is only logged.
SaveAgentConfig(agent, fs, write_ok) ==
    IF write_ok THEN DictSet(fs, agent.name, JsonDump(agent.config)) ELSE fs

\* The descriptors of the tools the wizard collects in step 7.
WizardTools(w, template) ==
    LET suggested == IF Len(template.suggested_tools) > 0 /\ StripLower(w.add_suggested) = "y"
                     THEN [i \in 1..Len(template.suggested_tools) |->
                              CreateToolConfig(template.suggested_tools[i])]
                     ELSE <<>>
        made == [i \in 1..Len(w.custom) |-> CreateCustomTool(w.custom[i])]
    IN  suggested \o SelectSeq(made, LAMBDA t : t # None)

\* AgentBuilder.create_agent_interactive on the answers w, from the builder
\* state (created, fs) at clock reading `clock`:
\* [agent, created_agents, files] after the call.
CreateAgentInteractive(w, created, fs, clock) ==
    LET unchanged == [agent |-> None, created_agents |-> created, files |-> fs]
        template_ok == \/ w.choice = "0"
                       \/ IsInt(w.choice) /\ PyIndexOk(TemplateNames, ParseInt(w.choice) - 1)
        template == IF w.choice = "0" THEN ScratchTemplate
                    ELSE agent_templates[PyIndex(TemplateNames, ParseInt(w.choice) - 1)]
        instructions == IF template.instructions # "" /\ StripLower(w.use_template) = "y"
                        THEN template.instructions
                        ELSE w.instructions
        model == Pick(Models, IF w.model_choice = "" THEN "1" ELSE w.model_choice, Models[1])
        deps_type == IF w.deps_choice # ""
                     THEN Pick(DepsTypes, w.deps_choice, template.deps_type)
                     ELSE template.deps_type
        output_type == IF w.output_choice # ""
                       THEN Pick(OutputTypes, w.output_choice, template.output_type)
                       ELSE template.output_type
        agent == DynamicAgent(w.name, instructions, model, deps_type, output_type,
                              WizardTools(w, template), clock)
    IN  IF w.intr = "choice" THEN unchanged               \* KeyboardInterrupt at the first prompt
        ELSE IF ~template_ok THEN unchanged               \* invalid choice
        ELSE IF w.intr = "name" THEN unchanged
        ELSE IF w.name = "" \/ ~NameMatch(w.name) THEN unchanged
        ELSE IF w.name \in DOMAIN created THEN unchanged
        ELSE IF w.intr = "later" THEN unchanged           \* at a prompt of steps 3 to 7
        ELSE IF ~w.ctor_ok THEN unchanged                 \* DynamicAgent(...) raised
        ELSE [agent |-> agent,
              created_agents |-> DictSet(created, w.name, agent),
              files |-> SaveAgentConfig(agent, fs, w.write_ok)]

\* deps_type_map.get(n, BaseDependencies) and output_type_map.get(n, AgentResult)
DepsTypeMap(n) ==
    IF n \in {"BaseDependencies", "ChatDependencies", "ResearchDependencies", "DataDependencies"}
    THEN Class(n) ELSE BaseDependencies

OutputTypeMap(n) ==
    IF n \in {"AgentResult", "ChatResponse", "ResearchResult", "AnalysisResult"}
    THEN Class(n) ELSE AgentResult

\* AgentBuilder.load_agent: [agent, created_agents] after the call.
LoadAgent(agent_name, created, fs, clock, ctor_ok) ==
    IF agent_name \notin DOMAIN fs
    THEN [agent |-> None, created_agents |-> created]
    ELSE LET config == JsonLoad(fs[agent_name])
             agent == DynamicAgent(config["name"],
                                   config["instructions"],
                                   IF "model" \in DOMAIN config THEN config["model"] ELSE "",
                                   DepsTypeMap(config["deps_type"]),
                                   OutputTypeMap(config["output_type"]),
                                   IF "tools" \in DOMAIN config THEN config["tools"] ELSE <<>>,
                                   clock)
         IN  IF \/ ~({"name", "instructions", "deps_type", "output_type"} \subseteq DOMAIN config)
                \/ ~ctor_ok
             THEN [agent |-> None, created_agents |-> created]
             ELSE [agent |-> agent, created_agents |-> DictSet(created, agent_name, agent)]

DeleteAgentKeepFile(agent_name, created, fs) ==
    IF agent_name \notin DOMAIN created
    THEN [ok |-> FALSE, created_agents |-> created, files |-> fs]
    ELSE [ok |-> TRUE, created_agents |-> DictDel(created, agent_name), files |-> fs]

\* AgentBuilder.delete_agent: [ok, created_agents, files] after the call.
DeleteAgent(agent_name, created, fs) ==
    IF agent_name \notin DOMAIN created
    THEN [ok |-> FALSE, created_agents |-> created, files |-> fs]
    ELSE [ok |-> TRUE,
          created_agents |-> DictDel(created, agent_name),
          files |-> DictDel(fs, agent_name)]

(***************************************************************************)
(* The record of the operation handled last.                               *)
(*   op   : the operation or command                                       *)
(*   arg  : its argument (a name), or the words of a message               *)
(*   ans  : the answer typed at its y/n prompt, "-" when none was asked    *)
(*   res  : its outcome                                                    *)
(*   intr : where a KeyboardInterrupt was raised during it, "none" if none *)
(* Every action sets it, so that last'.op names the action of a step.      *)
(***************************************************************************)
Last(op, arg, ans, res, intr) ==
    [op |-> op, arg |-> arg, ans |-> ans, res |-> res, intr |-> intr]

NoOp == Last("init", <<>>, "-", "-", "none")

(***************************************************************************)
(* The builder driven directly: the wizard, the programmatic creation of  *)
(* examples/demo_agent_creation.py, load_agent and delete_agent.           *)
(***************************************************************************)
CustomToolInputs ==
    {[name |-> "t1", description |-> "", type |-> "2"],
     [name |-> "1t", description |-> "d", type |-> "7"]}

CustomToolLists == UNION {[1..n -> CustomToolInputs] : n \in 0..MaxCustomTools}

\* The answers of a wizard run that creates the agent 'bot' from scratch.
DefaultAnswers ==
    [choice |-> "0", name |-> "bot", use_template |-> "n",
     instructions |-> "custom instructions", model_choice |-> "", deps_choice |-> "",
     output_choice |-> "", add_suggested |-> "n", custom |-> <<>>,
     intr |-> "none", ctor_ok |-> TRUE, write_ok |-> TRUE]

\* Wizard runs: the ways to be turned away, some configurations, the tools and failures.
BuilderWizardInputs ==
    {[DefaultAnswers EXCEPT !.choice = c, !.name = n, !.intr = i] :
        c \in {"0", "x"}, n \in {"bot", "9x", "a-b", "_x", ""},
        i \in {"none", "choice", "name", "later"}}
    \cup
    {[DefaultAnswers EXCEPT !.choice = "1", !.use_template = "y", !.add_suggested = "Y",
                            !.model_choice = "0", !.deps_choice = "2"],
     [DefaultAnswers EXCEPT !.choice = "-1", !.use_template = "n", !.add_suggested = "n",
                            !.model_choice = "x", !.output_choice = "x"]}
    \cup
    {[DefaultAnswers EXCEPT !.custom = l, !.ctor_ok = k, !.write_ok = f] :
        l \in CustomToolLists, k \in BOOLEAN, f \in BOOLEAN}

BuilderNames == {"bot", "ghost"}

\* The values of the variables of a component that a specification leaves out.
RetryIdle == retry = [pc |-> "idle"]
ParIdle == par = [pc |-> "idle"]
FiltIdle == filt = [pc |-> "idle"]
DataToolsIdle == dtool = [pc |-> "idle"]
TrackerIdle == tracker = [pc |-> "idle"]
ObserverIdle == observer = [pc |-> "idle"]
FileOpsIdle == fileops = [pc |-> "idle"]
AgentRunIdle == agentrun = [pc |-> "idle"]
OtherToolsIdle ==
    DataToolsIdle /\ TrackerIdle /\ ObserverIdle /\ FileOpsIdle /\ AgentRunIdle
ToolsIdle == RetryIdle /\ ParIdle /\ FiltIdle /\ OtherToolsIdle

PlaygroundIdle ==
    /\ agents = EmptyDict
    /\ current_agent = "chat"
    /\ conversation_history = <<>>
    /\ running = FALSE

InitBuilder ==
    /\ created_agents = EmptyDict
    /\ files = EmptyDict
    /\ now = 0
    /\ last = NoOp
    /\ PlaygroundIdle
    /\ ToolsIdle

Tick ==
    /\ now < MaxClock
    /\ now' = now + 1
    /\ last' = Last("tick", <<>>, "-", "-", "none")
    /\ UNCHANGED <<created_agents, files, playgroundVars, notPlayground>>

BuilderWizard ==
    \E w \in BuilderWizardInputs :
        LET r == CreateAgentInteractive(w, created_agents, files, now)
        IN  /\ created_agents' = r.created_agents
            /\ files' = r.files
            /\ last' = Last("create_agent_interactive", <<w.name>>, "-", r.agent.cls, w.intr)
            /\ UNCHANGED <<now, playgroundVars, notPlayground>>

BuilderLoad ==
    \E agent_name \in BuilderNames, ctor_ok \in BOOLEAN :
        LET r == LoadAgent(agent_name, created_agents, files, now, ctor_ok)
        IN  /\ created_agents' = r.created_agents
            /\ last' = Last("load_agent", <<agent_name>>, "-", r.agent.cls, "none")
            /\ UNCHANGED <<files, now, playgroundVars, notPlayground>>

BuilderDelete ==
    \E agent_name \in BuilderNames :
        LET r == DeleteAgent(agent_name, created_agents, files)
        IN  /\ created_agents' = r.created_agents
            /\ files' = r.files
            /\ last' = Last("delete_agent", <<agent_name>>, "-",
                            IF r.ok THEN "True" ELSE "False", "none")
            /\ UNCHANGED <<now, playgroundVars, notPlayground>>

NextBuilder ==
    \/ Tick
    \/ BuilderWizard
    \/ BuilderLoad
    \/ BuilderDelete

SpecBuilder == InitBuilder /\ [][NextBuilder]_vars

(***************************************************************************)
(* AgentPlayground.                                                        *)
(* An entry of conversation_history is [role, content, agent, metadata];   *)
(* its timestamp, which no operation reads, is left out.  content is a     *)
(* tuple of words and metadata a set of <<key, value>> pairs.              *)
(***************************************************************************)
simple_chat_agent ==
    [cls |-> "SimpleChatAgent", name |-> "simple_chat", model |-> DefaultModel,
     deps_type |-> ChatDependencies, output_type |-> ChatResponse]

research_agent ==
    [cls |-> "ResearchAgent", name |-> "research_agent", model |-> DefaultModel,
     deps_type |-> ResearchDependencies, output_type |-> ResearchResult]

data_analyst_agent ==
    [cls |-> "DataAnalystAgent", name |-> "data_analyst", model |-> DefaultModel,
     deps_type |-> DataDependencies, output_type |-> AnalysisResult]

\* self.agents as __init__ builds it, before the saved agents are loaded.
BuiltInAgents ==
    [chat |-> [agent |-> simple_chat_agent, deps_class |-> ChatDependencies,
               description |-> <<"Simple conversational AI with context management">>,
               type |-> "built-in"],
     research |-> [agent |-> research_agent, deps_class |-> ResearchDependencies,
                   description |-> <<"Information gathering and research agent">>,
                   type |-> "built-in"],
     analyst |-> [agent |-> data_analyst_agent, deps_class |-> DataDependencies,
                  description |-> <<"Data analysis and business insights agent">>,
                  type |-> "built-in"]]

\* The registry entry that _load_created_agents, create_agent_interactive and
\* load_agent_by_name store for a DynamicAgent.
CustomEntry(agent) ==
    [agent |-> agent, deps_class |-> agent.deps_type,
     description |-> <<"Custom agent:", agent.instructions>>,
     type |-> "custom"]

\* AgentPlayground._load_created_agents: every <name>.json is loaded; `failing`
\* are the files whose DynamicAgent(...) raises.  [agents, created_agents].
LoadCreatedAgents(reg, created, fs, clock, failing) ==
    LET loaded(n) == LoadAgent(n, created, fs, clock, n \notin failing).agent
        ok == {n \in DOMAIN fs : loaded(n) # None}
    IN  [agents |-> [n \in DOMAIN reg \cup ok |->
                        IF n \in ok THEN CustomEntry(loaded(n)) ELSE reg[n]],
         created_agents |-> [n \in DOMAIN created \cup ok |->
                                IF n \in ok THEN loaded(n) ELSE created[n]]]

\* AgentPlayground.log_interaction; agent "" stands for agent=None.
LogInteraction(hist, role, content, agent, metadata, current) ==
    Append(hist, [role |-> role, content |-> content,
                  agent |-> IF agent = "" THEN current ELSE agent,
                  metadata |-> metadata])

SwitchAgentAlways(agent_name, reg, current, hist) ==
    [current_agent |-> agent_name,
     conversation_history |->
         LogInteraction(hist, "system", <<"Switched to", agent_name, "agent">>,
                        "", {}, agent_name)]

\* AgentPlayground.switch_agent: [current_agent, conversation_history].
SwitchAgent(agent_name, reg, current, hist) ==
    IF agent_name \in DOMAIN reg
    THEN [current_agent |-> agent_name,
          conversation_history |->
              LogInteraction(hist, "system", <<"Switched to", agent_name, "agent">>,
                             "", {}, agent_name)]
    ELSE [current_agent |-> current, conversation_history |-> hist]

\* The text send_message makes of a response, by the attribute it finds first.
ResponseText(output_type) ==
    CASE output_type = ChatResponse -> <<"message">>
      [] output_type = AnalysisResult -> <<"Analysis:", "analysis">>
      [] output_type = ResearchResult -> <<"Research Results:", "findings">>
      [] OTHER -> <<"str(response)">>

\* AgentPlayground.send_message on `message`; `outcome` is what awaiting
\* agent.run does: "returned", "raised" (an Exception) or "KeyboardInterrupt".
\* [conversation_history, res], res being how the call left send_message.
SendMessage(message, outcome, reg, current, hist) ==
    LET logged == LogInteraction(hist, "user", message, "", {}, current)
        agent == reg[current].agent
    IN  IF current \notin DOMAIN reg
        THEN [conversation_history |-> logged, res |-> "KeyError"]
        ELSE IF outcome = "returned"
        THEN [conversation_history |->
                  LogInteraction(logged, "assistant", ResponseText(agent.output_type), current,
                                 {<<"response_type", TypeName(agent.output_type)>>}, current),
              res |-> "returned"]
        ELSE IF outcome = "raised"
        THEN [conversation_history |->
                  LogInteraction(logged, "system", <<"Error:", "e">>, current,
                                 {<<"error", "True">>}, current),
              res |-> "raised"]
        ELSE [conversation_history |-> logged, res |-> "KeyboardInterrupt"]

\* The state the playground commands act on, as a record.
PlaygroundState(reg, current, hist, created, fs) ==
    [agents |-> reg, current_agent |-> current, conversation_history |-> hist,
     created_agents |-> created, files |-> fs]

\* The y/n prompt of create_agent_interactive and load_agent_by_name, asked once
\* the agent is registered: 'y' switches to it.
AskSwitch(agent_name, answer, st) ==
    IF StripLower(answer) = "y"
    THEN LET sw == SwitchAgent(agent_name, st.agents, st.current_agent,
                               st.conversation_history)
         IN  [st EXCEPT !.current_agent = sw.current_agent,
                        !.conversation_history = sw.conversation_history]
    ELSE st

\* AgentPlayground.create_agent_interactive on the wizard answers w and the
\* answer to the switch prompt: [st, res, intr], intr = "switch_prompt" when a
\* KeyboardInterrupt at that prompt leaves the method (and the loop).
PlaygroundCreateAgent(w, answer, st, clock) ==
    LET r == CreateAgentInteractive(w, st.created_agents, st.files, clock)
        registered == [st EXCEPT !.agents = DictSet(st.agents, r.agent.name, CustomEntry(r.agent)),
                                 !.created_agents = r.created_agents,
                                 !.files = r.files]
    IN  IF r.agent = None
        THEN [st |-> st, res |-> "False", asked |-> FALSE, intr |-> w.intr]
        ELSE IF answer = "KeyboardInterrupt"
        THEN [st |-> registered, res |-> "KeyboardInterrupt", asked |-> TRUE,
              intr |-> "switch_prompt"]
        ELSE [st |-> AskSwitch(r.agent.name, answer, registered), res |-> "True",
              asked |-> TRUE, intr |-> "none"]

\* AgentPlayground.load_agent_by_name.
LoadAgentByName(agent_name, answer, ctor_ok, st, clock) ==
    LET r == LoadAgent(agent_name, st.created_agents, st.files, clock, ctor_ok)
        registered == [st EXCEPT !.agents = DictSet(st.agents, agent_name, CustomEntry(r.agent)),
                                 !.created_agents = r.created_agents]
    IN  IF agent_name \in DOMAIN st.agents
        THEN [st |-> st, res |-> "already loaded", asked |-> FALSE, intr |-> "none"]
        ELSE IF r.agent = None
        THEN [st |-> st, res |-> "could not load", asked |-> FALSE, intr |-> "none"]
        ELSE IF answer = "KeyboardInterrupt"
        THEN [st |-> registered, res |-> "KeyboardInterrupt", asked |-> TRUE,
              intr |-> "switch_prompt"]
        ELSE [st |-> AskSwitch(agent_name, answer, registered), res |-> "loaded",
              asked |-> TRUE, intr |-> "none"]

DeleteAgentByNameAnyType(agent_name, answer, st) ==
    LET d == DeleteAgent(agent_name, st.created_agents, st.files)
    IN  IF agent_name \notin DOMAIN st.agents
        THEN [st |-> st, res |-> "not found", asked |-> FALSE, intr |-> "none"]
        ELSE IF answer = "KeyboardInterrupt"
        THEN [st |-> st, res |-> "KeyboardInterrupt", asked |-> TRUE, intr |-> "confirm_prompt"]
        ELSE IF StripLower(answer) # "y"
        THEN [st |-> st, res |-> "cancelled", asked |-> TRUE, intr |-> "none"]
        ELSE [st |-> [st EXCEPT !.current_agent = IF st.current_agent = agent_name
                                                  THEN "chat" ELSE st.current_agent,
                                !.agents = DictDel(st.agents, agent_name),
                                !.created_agents = d.created_agents,
                                !.files = d.files],
              res |-> "deleted", asked |-> TRUE, intr |-> "none"]

\* AgentPlayground.delete_agent_by_name on the answer to the confirmation prompt.
DeleteAgentByName(agent_name, answer, st) ==
    LET d == DeleteAgent(agent_name, st.created_agents, st.files)
    IN  IF agent_name \notin DOMAIN st.agents
        THEN [st |-> st, res |-> "not found", asked |-> FALSE, intr |-> "none"]
        ELSE IF st.agents[agent_name].type = "built-in"
        THEN [st |-> st, res |-> "built-in", asked |-> FALSE, intr |-> "none"]
        ELSE IF answer = "KeyboardInterrupt"
        THEN [st |-> st, res |-> "KeyboardInterrupt", asked |-> TRUE, intr |-> "confirm_prompt"]
        ELSE IF StripLower(answer) # "y"
        THEN [st |-> st, res |-> "cancelled", asked |-> TRUE, intr |-> "none"]
        ELSE [st |-> [st EXCEPT !.current_agent = IF st.current_agent = agent_name
                                                  THEN "chat" ELSE st.current_agent,
                                !.agents = DictDel(st.agents, agent_name),
                                !.created_agents = d.created_agents,
                                !.files = d.files],
              res |-> "deleted", asked |-> TRUE, intr |-> "none"]

\* AgentPlayground.show_agent_detailed_info: the current agent after the call.
ShowAgentDetailedInfo(agent_name, reg, current) ==
    IF agent_name \in DOMAIN reg /\ reg[agent_name].type = "custom" THEN current
    ELSE IF agent_name \in DOMAIN reg THEN agent_name
    ELSE current

(***************************************************************************)
(* The loop of AgentPlayground.run.  An input line is the tuple of its     *)
(* words (user_input.split()); <<>> is the empty line.  A KeyboardInterrupt *)
(* is raised where the loop blocks: at an input prompt or in the awaited    *)
(* agent call.                                                             *)
(***************************************************************************)
ArgNames == {"chat", "research", "bot", "ghost"}
FreeTextWords == {"hello", "world"}

UserInputs ==
    {<<>>, <<"/help">>, <<"/history">>, <<"/frobnicate">>, <<"/switch">>,
     <<"/info">>, <<"/clear">>, <<"/create">>,
     <<"/quit">>, <<"/q">>, <<"/QUIT">>, <<"/quit", "now">>,
     <<"hello">>}
    \cup {<<c, n>> : c \in {"/switch", "/Switch", "/load", "/delete", "/agent-info"},
                     n \in ArgNames}

\* user_input.startswith('/'), for the words of the model
StartsWithSlash(word) == word \notin FreeTextWords

\* command = parts[0].lower()
Command(parts) == Lower(parts[1])

\* The input lines that the dispatch of run takes to one of `commands`.
CommandLines(commands) ==
    {parts \in UserInputs :
        parts # <<>> /\ StartsWithSlash(parts[1]) /\ Command(parts) \in commands}

\* The input lines sent to the agent as a message.
MessageLines == {parts \in UserInputs : parts # <<>> /\ ~StartsWithSlash(parts[1])}

HandledCommands ==
    {"/help", "/history", "/switch", "/load", "/delete", "/agent-info", "/info",
     "/clear", "/create", "/quit", "/q"}

\* The lines that only print: the empty line (continue), /help, /history, an
\* unknown command and a command that lacks its argument.
DisplayLines ==
    {parts \in UserInputs :
        \/ parts = <<>>
        \/ /\ parts # <<>> /\ StartsWithSlash(parts[1])
           /\ \/ Command(parts) \in {"/help", "/history"}
              \/ Command(parts) \in {"/switch", "/load", "/delete", "/agent-info"}
                     /\ Len(parts) = 1
              \/ Command(parts) \notin HandledCommands}

YesNoAnswers == {"y", "Y", "n"}

PlaygroundWizardInputs ==
    {[DefaultAnswers EXCEPT !.name = n, !.choice = c, !.intr = i] :
        n \in {"chat", "bot", "9x"}, c \in {"0", "x"}, i \in {"none", "later"}}

\* The configuration file an earlier session's wizard left for the agent n.
SavedConfig(n) ==
    JsonDump(CreateAgentInteractive([DefaultAnswers EXCEPT !.name = n],
                                    EmptyDict, EmptyDict, 0).agent.config)

PreviousFiles == {[n \in S |-> SavedConfig(n)] : S \in SUBSET {"chat", "bot"}}

\* AgentPlayground.__init__, after the import of agent_builder created the
\* builder with no created agents.
InitPlayground ==
    \E fs \in PreviousFiles, failing \in SUBSET {"chat", "bot"} :
        LET r == LoadCreatedAgents(BuiltInAgents, EmptyDict, fs, 0, failing)
        IN  /\ failing \subseteq DOMAIN fs
            /\ agents = r.agents
            /\ created_agents = r.created_agents
            /\ files = fs
            /\ now = 0
            /\ current_agent = "chat"
            /\ conversation_history = <<>>
            /\ running = TRUE
            /\ last = NoOp
            /\ ToolsIdle

CurrentState ==
    PlaygroundState(agents, current_agent, conversation_history, created_agents, files)

SetState(st) ==
    /\ agents' = st.agents
    /\ current_agent' = st.current_agent
    /\ conversation_history' = st.conversation_history
    /\ created_agents' = st.created_agents
    /\ files' = st.files

\* The bound of the model on the length of the history.
Fits(hist) == Len(hist) <= MaxHistory

\* except KeyboardInterrupt at the prompt of the loop: Goodbye, break.
RunInterrupted ==
    /\ running
    /\ running' = FALSE
    /\ last' = Last("input", <<>>, "-", "KeyboardInterrupt", "prompt")
    /\ UNCHANGED <<agents, current_agent, conversation_history, builderVars, notPlayground>>

RunInputErrorBreaks ==
    /\ running
    /\ running' = FALSE
    /\ last' = Last("input", <<>>, "-", "EOFError", "none")
    /\ UNCHANGED <<agents, current_agent, conversation_history, builderVars, notPlayground>>

\* input() raises an Exception (EOFError): reported, and the loop goes on.
RunInputError ==
    /\ running
    /\ last' = Last("input", <<>>, "-", "EOFError", "none")
    /\ UNCHANGED <<playgroundVars, builderVars, notPlayground>>

\* The lines that only print.
RunDisplay ==
    \E parts \in DisplayLines :
        /\ running
        /\ last' = Last("display", <<>>, "-", "printed", "none")
        /\ UNCHANGED <<playgroundVars, builderVars, notPlayground>>

\* /info: show_agent_info raises KeyError when the current agent is not registered.
RunInfo ==
    \E parts \in CommandLines({"/info"}) :
        /\ running
        /\ last' = Last("/info", <<>>, "-",
                        IF current_agent \in DOMAIN agents THEN "printed" ELSE "KeyError",
                        "none")
        /\ UNCHANGED <<playgroundVars, builderVars, notPlayground>>

\* /clear: clear_history
RunClear ==
    \E parts \in CommandLines({"/clear"}) :
        /\ running
        /\ conversation_history' = <<>>
        /\ last' = Last("/clear", <<>>, "-", "cleared", "none")
        /\ UNCHANGED <<agents, current_agent, running, builderVars, notPlayground>>

\* /switch <name>
RunSwitch ==
    \E parts \in CommandLines({"/switch"}) :
        /\ running
        /\ Len(parts) > 1
        /\ LET sw == SwitchAgent(parts[2], agents, current_agent, conversation_history)
           IN  /\ Fits(sw.conversation_history)
               /\ current_agent' = sw.current_agent
               /\ conversation_history' = sw.conversation_history
        /\ last' = Last("/switch", <<parts[2]>>, "-", "done", "none")
        /\ UNCHANGED <<agents, running, builderVars, notPlayground>>

\* /create
RunCreate ==
    \E parts \in CommandLines({"/create"}) :
      \E w \in PlaygroundWizardInputs, answer \in YesNoAnswers \cup {"KeyboardInterrupt"} :
        /\ running
        /\ LET r == PlaygroundCreateAgent(w, answer, CurrentState, now)
           IN  /\ Fits(r.st.conversation_history)
               /\ SetState(r.st)
               /\ running' = (r.res # "KeyboardInterrupt")
               /\ last' = Last("/create", <<w.name>>, IF r.asked THEN answer ELSE "-",
                               r.res, r.intr)
        /\ UNCHANGED <<now, notPlayground>>

\* /load <name>
RunLoad ==
    \E parts \in CommandLines({"/load"}) :
      \E ctor_ok \in BOOLEAN, answer \in YesNoAnswers \cup {"KeyboardInterrupt"} :
        /\ running
        /\ Len(parts) > 1
        /\ LET r == LoadAgentByName(parts[2], answer, ctor_ok, CurrentState, now)
           IN  /\ Fits(r.st.conversation_history)
               /\ SetState(r.st)
               /\ running' = (r.res # "KeyboardInterrupt")
               /\ last' = Last("/load", <<parts[2]>>, IF r.asked THEN answer ELSE "-",
                               r.res, r.intr)
        /\ UNCHANGED <<now, notPlayground>>

\* /delete <name>
RunDelete ==
    \E parts \in CommandLines({"/delete"}) :
      \E answer \in YesNoAnswers \cup {"KeyboardInterrupt"} :
        /\ running
        /\ Len(parts) > 1
        /\ LET r == DeleteAgentByName(parts[2], answer, CurrentState)
           IN  /\ SetState(r.st)
               /\ running' = (r.res # "KeyboardInterrupt")
               /\ last' = Last("/delete", <<parts[2]>>, IF r.asked THEN answer ELSE "-",
                               r.res, r.intr)
        /\ UNCHANGED <<now, notPlayground>>

\* /agent-info <name>
RunAgentInfo ==
    \E parts \in CommandLines({"/agent-info"}) :
        /\ running
        /\ Len(parts) > 1
        /\ current_agent' = ShowAgentDetailedInfo(parts[2], agents, current_agent)
        /\ last' = Last("/agent-info", <<parts[2]>>, "-", "printed", "none")
        /\ UNCHANGED <<agents, conversation_history, running, builderVars, notPlayground>>

\* /quit, /q: Goodbye, break.
RunQuit ==
    \E parts \in CommandLines({"/quit", "/q"}) :
        /\ running
        /\ running' = FALSE
        /\ last' = Last("/quit", <<>>, "-", "break", "none")
        /\ UNCHANGED <<agents, current_agent, conversation_history, builderVars, notPlayground>>

\* Free text: await self.send_message(user_input, observe_mode).  A KeyError
\* of send_message is caught by the loop's except Exception; a
\* KeyboardInterrupt in the agent call ends the loop.
RunSendMessage ==
    \E parts \in MessageLines, outcome \in {"returned", "raised", "KeyboardInterrupt"} :
        /\ running
        /\ LET r == SendMessage(parts, outcome, agents, current_agent, conversation_history)
           IN  /\ Fits(r.conversation_history)
               /\ conversation_history' = r.conversation_history
               /\ running' = (r.res # "KeyboardInterrupt")
               /\ last' = Last("message", parts, "-", r.res,
                               IF r.res = "KeyboardInterrupt" THEN "agent_call" ELSE "none")
        /\ UNCHANGED <<agents, current_agent, builderVars, notPlayground>>

Next ==
    \/ RunInterrupted
    \/ RunInputError
    \/ RunDisplay
    \/ RunInfo
    \/ RunClear
    \/ RunSwitch
    \/ RunCreate
    \/ RunLoad
    \/ RunDelete
    \/ RunAgentInfo
    \/ RunQuit
    \/ RunSendMessage

Spec == InitPlayground /\ [][Next]_vars

(***************************************************************************)
(* retry_async (src/src/utils/helpers.py).  `retry` holds the configuration, *)
(* the locals of the call (attempt, current_delay, last_exception) and what  *)
(* the call did: the outcome of each invocation of func in `calls`, the      *)
(* delays slept in `sleeps`, and how it ended in pc, result and raised.      *)
(* An invocation returns a value, raises an Exception, or raises a           *)
(* BaseException that is no Exception (asyncio.CancelledError).  The k-th    *)
(* invocation's exception is <<kind, k>>.                                    *)
(***************************************************************************)
MaxAttempts == 3
Delays == {1, 2}
BackoffFactors == {1, 2, 3}
ReturnValues == {"r1", "r2"}

BuiltinIdle ==
    /\ created_agents = EmptyDict
    /\ files = EmptyDict
    /\ now = 0
    /\ last = NoOp
    /\ PlaygroundIdle

InitRetry ==
    /\ \E n \in 0..MaxAttempts, d \in Delays, b \in BackoffFactors :
           retry = [pc |-> "loop",
                    config |-> [max_attempts |-> n, delay |-> d, backoff_factor |-> b],
                    attempt |-> 0,
                    current_delay |-> d,
                    last_exception |-> None,
                    calls |-> <<>>,
                    sleeps |-> <<>>,
                    result |-> None,
                    raised |-> None]
    /\ BuiltinIdle
    /\ ParIdle
    /\ FiltIdle
    /\ OtherToolsIdle

Exc(kind, k) == [cls |-> kind, of |-> k]
Returned(v) == [cls |-> "value", v |-> v]

RetryAfterFailureKeepsFirst(r, e) ==
    LET kept == IF r.last_exception = None THEN e ELSE r.last_exception
    IN  IF r.attempt < r.config.max_attempts - 1
        THEN [r EXCEPT !.last_exception = kept, !.pc = "sleeping"]
        ELSE [r EXCEPT !.last_exception = kept, !.pc = "raised", !.raised = kept]

\* The except Exception clause of the loop body, for the exception e; on the
\* last attempt the loop breaks and the statement after it raises.
RetryAfterFailure(r, e) ==
    IF r.attempt < r.config.max_attempts - 1
    THEN [r EXCEPT !.last_exception = e, !.pc = "sleeping"]
    ELSE [r EXCEPT !.last_exception = e, !.pc = "raised", !.raised = e]

\* for attempt in range(max_attempts): return await func(*args, **kwargs)
RetryInvoke ==
    /\ retry.pc = "loop"
    /\ retry.attempt < retry.config.max_attempts
    /\ LET k == Len(retry.calls) + 1
       IN  \/ \E v \in ReturnValues :
                  retry' = [retry EXCEPT !.calls = Append(@, Returned(v)),
                                         !.pc = "returned",
                                         !.result = Returned(v)]
           \/ retry' = RetryAfterFailure([retry EXCEPT !.calls = Append(@, Exc("Exception", k))],
                                         Exc("Exception", k))
           \/ retry' = [retry EXCEPT !.calls = Append(@, Exc("CancelledError", k)),
                                     !.pc = "raised",
                                     !.raised = Exc("CancelledError", k)]
    /\ UNCHANGED notRetry

RetrySleepSameDelay ==
    /\ retry.pc = "sleeping"
    /\ retry' = [retry EXCEPT !.sleeps = Append(@, retry.current_delay),
                              !.attempt = @ + 1,
                              !.pc = "loop"]
    /\ UNCHANGED notRetry

\* await asyncio.sleep(current_delay); current_delay *= backoff_factor; next attempt
RetrySleep ==
    /\ retry.pc = "sleeping"
    /\ retry' = [retry EXCEPT !.sleeps = Append(@, retry.current_delay),
                              !.current_delay = @ * retry.config.backoff_factor,
                              !.attempt = @ + 1,
                              !.pc = "loop"]
    /\ UNCHANGED notRetry

\* The loop ends without a break (range(max_attempts) is used up): the
\* function falls off its end, raising last_exception if there is one.
RetryFallThrough ==
    /\ retry.pc = "loop"
    /\ retry.attempt >= retry.config.max_attempts
    /\ retry' = IF retry.last_exception # None
                THEN [retry EXCEPT !.pc = "raised", !.raised = retry.last_exception]
                ELSE [retry EXCEPT !.pc = "returned", !.result = None]
    /\ UNCHANGED notRetry

NextRetry ==
    \/ RetryInvoke
    \/ RetrySleep
    \/ RetryFallThrough

SpecRetry == InitRetry /\ [][NextRetry]_vars

(***************************************************************************)
(* Claims about the playground (Spec).                                     *)
(***************************************************************************)
ArgName(l) == l.arg[1]

\* hist2 is hist1 with exactly n entries appended
Appended(hist1, hist2, n) ==
    /\ Len(hist2) = Len(hist1) + n
    /\ SubSeq(hist2, 1, Len(hist1)) = hist1

\* name is in none of the registry, the builder's created agents and the files
Absent(name, reg, created, fs) ==
    /\ name \notin DOMAIN reg
    /\ name \notin DOMAIN created
    /\ name \notin DOMAIN fs

\* C1 (as stated): for every non-empty input that does not start with '/',
\* send_message (left to finish, with no interrupt) appends exactly two entries
\* to conversation_history: a 'user' entry holding the input, then one reply,
\* 'assistant' if the agent call returned and 'system' with error metadata if it
\* raised, both tagged with the current agent.
C1_SendAppendsUserAndReply ==
    [][(last'.op = "message" /\ last'.intr = "none")
       => /\ Appended(conversation_history, conversation_history', 2)
          /\ LET user == conversation_history'[Len(conversation_history) + 1]
                 reply == conversation_history'[Len(conversation_history) + 2]
             IN  /\ user.role = "user"
                 /\ user.content = last'.arg
                 /\ user.agent = current_agent
                 /\ reply.agent = current_agent
                 /\ \/ reply.role = "assistant"
                    \/ reply.role = "system" /\ <<"error", "True">> \in reply.metadata]_vars

\* C2: /switch <name> with name a key of the registry makes name the current
\* agent and appends one 'system' entry to the history; with any other name the
\* current agent, the registry and the history are unchanged.
C2_Switch ==
    [][last'.op = "/switch"
       => /\ agents' = agents
          /\ IF ArgName(last') \in DOMAIN agents
             THEN /\ current_agent' = ArgName(last')
                  /\ Appended(conversation_history, conversation_history', 1)
                  /\ conversation_history'[Len(conversation_history')].role = "system"
             ELSE /\ current_agent' = current_agent
                  /\ conversation_history' = conversation_history]_vars

\* C2 witness: a /switch to a registered custom agent has been handled.
C2_Witness ==
    /\ last.op = "/switch"
    /\ ArgName(last) \in DOMAIN agents
    /\ agents[ArgName(last)].type = "custom"
    /\ current_agent = ArgName(last)
    /\ conversation_history # <<>>

\* C3: /delete <name> on an agent whose registry entry is of type built-in is
\* refused without asking for confirmation: the registry, the current agent, the
\* builder's created agents and the configuration files are unchanged.
C3_BuiltInNotDeleted ==
    [][(/\ last'.op = "/delete"
        /\ ArgName(last') \in DOMAIN agents
        /\ agents[ArgName(last')].type = "built-in")
       => /\ last'.ans = "-"
          /\ last'.intr = "none"
          /\ agents' = agents
          /\ current_agent' = current_agent
          /\ created_agents' = created_agents
          /\ files' = files]_vars

\* C3 witness: /delete of a built-in agent has been handled, while a custom
\* agent with a configuration file exists.
C3_Witness ==
    /\ last.op = "/delete"
    /\ ArgName(last) \in DOMAIN agents
    /\ agents[ArgName(last)].type = "built-in"
    /\ \E n \in DOMAIN agents : agents[n].type = "custom" /\ n \in DOMAIN files

\* C4 (as stated): /delete <name> on a registered custom agent, answered 'y',
\* leaves the name out of the registry, the created agents and the files, and
\* makes 'chat' the current agent if the deleted agent was; any other answer
\* leaves registry, builder, files and current agent unchanged.
C4_DeleteOnlyOnLiteralY ==
    [][(/\ last'.op = "/delete"
        /\ ArgName(last') \in DOMAIN agents
        /\ agents[ArgName(last')].type = "custom"
        /\ last'.intr = "none")
       => IF last'.ans = "y"
          THEN /\ Absent(ArgName(last'), agents', created_agents', files')
               /\ current_agent = ArgName(last') => current_agent' = "chat"
          ELSE /\ agents' = agents
               /\ current_agent' = current_agent
               /\ created_agents' = created_agents
               /\ files' = files]_vars

\* C4 (amended): the answer counts as read by the prompt, stripped of blanks and
\* lower-cased: an answer that reads 'y' deletes as stated, and the current
\* agent is otherwise kept; any other answer leaves everything unchanged.
C4_DeleteOnConfirmation ==
    [][(/\ last'.op = "/delete"
        /\ ArgName(last') \in DOMAIN agents
        /\ agents[ArgName(last')].type = "custom"
        /\ last'.intr = "none")
       => IF last'.ans \in {"y", "Y", " y "}
          THEN /\ Absent(ArgName(last'), agents', created_agents', files')
               /\ DOMAIN agents' = DOMAIN agents \ {ArgName(last')}
               /\ current_agent' = IF current_agent = ArgName(last')
                                    THEN "chat" ELSE current_agent
          ELSE /\ agents' = agents
               /\ current_agent' = current_agent
               /\ created_agents' = created_agents
               /\ files' = files]_vars

\* C4 witness: the current agent, a custom agent with a configuration file,
\* has been deleted on the answer 'Y'.
C4_Witness ==
    /\ last.op = "/delete"
    /\ last.ans = "Y"
    /\ last.res = "deleted"
    /\ Absent(ArgName(last), agents, created_agents, files)
    /\ ArgName(last) = "bot"
    /\ current_agent = "chat"
    /\ \E i \in DOMAIN conversation_history : conversation_history[i].agent = "bot"

\* C5 (as stated): the loop terminates exactly when it reads /quit or /q or
\* receives a keyboard interrupt; after every other input or exception it goes on.
C5_StopsOnQuitOrAnyInterrupt ==
    [][running => (~running' <=> (last'.op = "/quit" \/ last'.intr # "none"))]_vars

\* C5 (amended): the loop terminates exactly when it reads /quit or /q or a
\* keyboard interrupt reaches it (raised at its prompt, in the agent call, or at
\* the switch or confirmation prompt of a command); a keyboard interrupt inside
\* the creation wizard only cancels the creation.  After every other input or
\* exception the loop goes on.
C5_StopsOnQuitOrInterruptOutsideWizard ==
    [][running
       => (~running' <=>
              \/ last'.op = "/quit"
              \/ last'.intr \in {"prompt", "agent_call", "switch_prompt",
                                 "confirm_prompt"})]_vars

\* C5 witness: the wizard of /create was interrupted and the loop is alive.
C5_Witness ==
    /\ running
    /\ last.op = "/create"
    /\ last.intr = "later"

(***************************************************************************)
(* Claims about the builder (SpecBuilder).                                 *)
(***************************************************************************)
\* C6 (as stated): an agent saved with _save_agent_config and then loaded with
\* load_agent under the same name has a configuration dictionary equal to the
\* saved one in every field, the creation timestamp included.
C6_RoundTripEqualsSaved ==
    [][(/\ last'.op = "load_agent"
        /\ last'.res = "DynamicAgent"
        /\ ArgName(last') \in DOMAIN created_agents
        /\ ArgName(last') \in DOMAIN files
        /\ files[ArgName(last')] = JsonDump(created_agents[ArgName(last')].config))
       => created_agents'[ArgName(last')].config = created_agents[ArgName(last')].config]_vars

\* s is a letter followed by letters, digits and underscores
MatchesNamePattern(s) ==
    /\ Chars(s) # <<>>
    /\ Head(Chars(s)) \in Letters
    /\ \A i \in DOMAIN Tail(Chars(s)) : Tail(Chars(s))[i] \in Letters \cup Digits \cup {"_"}

\* C7: create_agent_interactive returns no agent, leaves created_agents as they
\* were and writes no configuration file whenever the entered name is empty,
\* does not match ^[a-zA-Z][a-zA-Z0-9_]*$, or is already a key of created_agents.
C7_BadNameCreatesNothing ==
    [][(/\ last'.op = "create_agent_interactive"
        /\ \/ ArgName(last') = ""
           \/ ~MatchesNamePattern(ArgName(last'))
           \/ ArgName(last') \in DOMAIN created_agents)
       => /\ last'.res = "None"
          /\ created_agents' = created_agents
          /\ files' = files]_vars

\* C7 witness: the wizard was answered through to a name that is refused, with
\* no interrupt: a name that does not match, while another agent exists.
C7_Witness ==
    /\ last.op = "create_agent_interactive"
    /\ last.intr = "none"
    /\ last.res = "None"
    /\ ArgName(last) \in {"9x", "_x", "a-b"}
    /\ "bot" \in DOMAIN created_agents
    /\ "bot" \in DOMAIN files

(***************************************************************************)
(* Claims about retry_async                                                *)
(***************************************************************************)
Raises(c) == c.cls # "value"

\* C8: with max_attempts = N >= 1, retry_async invokes the function at most N
\* times; every invocation before the last one raised, so it stops at the
\* first invocation that does not raise, and it returns that invocation's
\* result; if all N invocations raise, it raises the exception of the N-th.
C8_RetryStopsAtFirstSuccess ==
    (retry.pc # "idle" /\ retry.config.max_attempts >= 1) =>
        LET N == retry.config.max_attempts
            calls == retry.calls
            n == Len(calls)
        IN  /\ n <= N
            /\ \A i \in 1..(n - 1) : Raises(calls[i])
            /\ (n >= 1 /\ ~Raises(calls[n])) =>
                   (retry.pc = "returned" /\ retry.result = calls[n])
            /\ retry.pc = "returned" => (n >= 1 /\ retry.result = calls[n])
            /\ (n = N /\ \A i \in 1..N : Raises(calls[i])) =>
                   (retry.pc = "raised" /\ retry.raised = calls[N])

\* Three invocations out of three raised and the third one's exception left
\* the call.
C8_Witness ==
    /\ retry.pc = "raised"
    /\ retry.config.max_attempts = 3
    /\ Len(retry.calls) = 3
    /\ retry.raised = Exc("Exception", 3)

(***************************************************************************)
(* parallel_agent_execution (src/examples/advanced_patterns.py).  `par`    *)
(* holds one coroutine per entry of the task list, the order in which the  *)
(* coroutines finished, the list asyncio.gather returns and the lines the  *)
(* report loop has printed.  What the framework call of a task does is an  *)
(* input: it returns, or raises one of FrameworkErrors.                    *)
(***************************************************************************)
NumTasks == 3
ParTasks == <<simple_chat_agent, research_agent, data_analyst_agent>>
FrameworkErrors == {"ModelHTTPError", "UnexpectedModelBehavior"}

\* The fields of an output model that have no default (src/src/core/models.py).
RequiredFields(output_type) ==
    CASE output_type = ChatResponse -> {"message"}
      [] output_type = ResearchResult -> {"query", "findings"}
      [] output_type = AnalysisResult -> {"analysis"}
      [] output_type = AgentResult -> {"result"}
      [] output_type = ToolResult -> {"tool_name", "result"}
      [] OTHER -> {}

\* BaseAgent.run once the framework call has ended with `outcome` ("ok" or
\* an exception class): [raised, value].  A failure is answered with
\* output_type(), which itself raises ValidationError when the model has
\* required fields; the framework's exception is then its __context__.
\* An agent without output_type returns the framework's text.
BaseAgentRun(agent, outcome) ==
    IF outcome = "ok"
    THEN [raised |-> FALSE,
          value |-> [cls |-> IF agent.output_type = None THEN "str"
                             ELSE TypeName(agent.output_type),
                     by |-> agent.name]]
    ELSE IF agent.output_type # None
    THEN IF RequiredFields(agent.output_type) = {}
         THEN [raised |-> FALSE,
               value |-> [cls |-> TypeName(agent.output_type), by |-> "default"]]
         ELSE [raised |-> TRUE,
               value |-> [cls |-> "ValidationError",
                          model |-> TypeName(agent.output_type),
                          context |-> outcome]]
    ELSE [raised |-> TRUE, value |-> [cls |-> outcome]]

\* run_agent_task for one task, from the end of the framework call on.
RunAgentTask(agent, outcome) ==
    LET r == BaseAgentRun(agent, outcome)
    IN  IF r.raised THEN <<agent.name, None, r.value>> ELSE <<agent.name, r.value, None>>

GatherAsCompleted(tasks, finished) ==
    [i \in 1..NumTasks |-> tasks[finished[i]].triple]

\* What asyncio.gather returns: the children's results in the order of its
\* arguments, whatever the order they finished in.
Gather(tasks, finished) ==
    [i \in 1..NumTasks |-> tasks[i].triple]

InitPar ==
    /\ par = [pc |-> "gather",
              tasks |-> [i \in 1..NumTasks |-> [pc |-> "pending", outcome |-> "", triple |-> <<>>]],
              finished |-> <<>>,
              results |-> <<>>,
              reported |-> <<>>]
    /\ BuiltinIdle
    /\ RetryIdle
    /\ FiltIdle
    /\ OtherToolsIdle

\* A coroutine runs up to its await of the framework call.  The event loop
\* starts the coroutines in the order gather was given them.
ParStart ==
    /\ par.pc = "gather"
    /\ \E i \in 1..NumTasks :
           /\ par.tasks[i].pc = "pending"
           /\ \A j \in 1..(i - 1) : par.tasks[j].pc # "pending"
           /\ par' = [par EXCEPT !.tasks[i].pc = "awaiting"]
    /\ UNCHANGED notPar

\* The framework call of one awaiting coroutine ends and the coroutine runs
\* to its return.
ParResume ==
    /\ par.pc = "gather"
    /\ \E i \in 1..NumTasks, outcome \in {"ok"} \cup FrameworkErrors :
           /\ par.tasks[i].pc = "awaiting"
           /\ par' = [par EXCEPT !.tasks[i] = [pc |-> "done", outcome |-> outcome,
                                               triple |-> RunAgentTask(ParTasks[i], outcome)],
                                 !.finished = Append(@, i)]
    /\ UNCHANGED notPar

\* Every child is done: gather returns.
ParGather ==
    /\ par.pc = "gather"
    /\ \A i \in 1..NumTasks : par.tasks[i].pc = "done"
    /\ par' = [par EXCEPT !.pc = "report", !.results = Gather(par.tasks, par.finished)]
    /\ UNCHANGED notPar

\* One iteration of the report loop, or its end.
ParReport ==
    /\ par.pc = "report"
    /\ LET k == Len(par.reported) + 1
       IN  IF k <= Len(par.results)
           THEN LET agent_name == par.results[k][1]
                    result == par.results[k][2]
                    error == par.results[k][3]
                IN  par' = [par EXCEPT !.reported =
                                Append(@, IF error # None
                                          THEN <<agent_name, "Failed", error>>
                                          ELSE <<agent_name, "ok", result>>)]
           ELSE par' = [par EXCEPT !.pc = "done"]
    /\ UNCHANGED notPar

NextPar ==
    \/ ParStart
    \/ ParResume
    \/ ParGather
    \/ ParReport

SpecPar == InitPar /\ [][NextPar]_vars

(***************************************************************************)
(* Claims about parallel_agent_execution                                   *)
(***************************************************************************)
\* The triple task i owes to what its own agent call did.
OwnTriple(i) ==
    LET t == par.tasks[i]
    IN  IF t.outcome = "ok"
        THEN <<ParTasks[i].name, [cls |-> TypeName(ParTasks[i].output_type), by |-> ParTasks[i].name], None>>
        ELSE <<ParTasks[i].name, None,
               [cls |-> "ValidationError", model |-> TypeName(ParTasks[i].output_type),
                context |-> t.outcome]>>

\* C9: under every interleaving each task ends with exactly one triple
\* (agent name, result, error) determined by its own agent call alone: a
\* failed call puts its error in the task's own triple, no step of a task
\* touches another task or undoes a finished one, gather hands back one
\* triple per task in task-list order, and the report prints them in that
\* order.
C9_OneTriplePerTaskInOrder ==
    [][
        /\ \A i \in 1..NumTasks :
              /\ par'.tasks[i].pc = "done" => par'.tasks[i].triple = OwnTriple(i)'
              /\ par.tasks[i].pc = "done" => par'.tasks[i] = par.tasks[i]
              /\ par'.tasks[i] # par.tasks[i] =>
                     \A j \in 1..NumTasks : j # i => par'.tasks[j] = par.tasks[j]
        /\ par'.pc \in {"report", "done"} =>
              /\ Len(par'.results) = NumTasks
              /\ \A i \in 1..NumTasks : par'.results[i] = OwnTriple(i)'
              /\ Len(par'.reported) <= NumTasks
              /\ \A k \in 1..Len(par'.reported) :
                     /\ par'.reported[k][1] = ParTasks[k].name
                     /\ par'.reported[k][2] = (IF par'.tasks[k].outcome = "ok" THEN "ok" ELSE "Failed")
        /\ par'.pc = "done" => Len(par'.reported) = NumTasks
      ]_vars

\* The second task failed, the others succeeded, the tasks finished in the
\* reverse of the list order, and all three triples have been reported.
C9_Witness ==
    /\ par.pc = "done"
    /\ par.finished = <<3, 2, 1>>
    /\ par.tasks[1].outcome = "ok"
    /\ par.tasks[2].outcome = "ModelHTTPError"
    /\ par.tasks[3].outcome = "ok"
    /\ Len(par.reported) = NumTasks
    /\ par.reported[2][2] = "Failed"

(***************************************************************************)
(* DataTools.filter_data (src/src/tools/data_tools.py).  A record is a     *)
(* dict: a function from the columns it has to their values.  The          *)
(* conditions dict is the sequence of its (column, value) items, each      *)
(* column once.  `filt` holds the arguments of a call, its result, and the *)
(* result of filtering that result with the same conditions.               *)
(***************************************************************************)
MaxRecords == 2
Columns == {"region", "product"}
CellValues == {1, 2}

Records == UNION {[S -> CellValues] : S \in SUBSET Columns}
DataLists == UNION {[1..n -> Records] : n \in 0..MaxRecords}
ConditionDicts ==
    {c \in UNION {[1..n -> Columns \X CellValues] : n \in 0..Cardinality(Columns)} :
        \A i, j \in 1..Len(c) : c[i][1] = c[j][1] => i = j}

ConditionFailsOnlyIfPresent(record, column, condition_value) ==
    column \in DOMAIN record /\ record[column] # condition_value

\* The two tests of the inner loop body: TRUE when match becomes False.
ConditionFails(record, column, condition_value) ==
    IF column \notin DOMAIN record
    THEN TRUE
    ELSE record[column] # condition_value

\* The inner loop from the k-th item of conditions on: the final value of match.
RECURSIVE Match(_, _, _)
Match(record, conditions, k) ==
    IF k > Len(conditions)
    THEN TRUE
    ELSE IF ConditionFails(record, conditions[k][1], conditions[k][2])
    THEN FALSE
    ELSE Match(record, conditions, k + 1)

\* The outer loop from the i-th record on, filtered_data being what it has
\* collected so far.
RECURSIVE FilterFrom(_, _, _, _)
FilterFrom(data, conditions, i, filtered_data) ==
    IF i > Len(data)
    THEN filtered_data
    ELSE FilterFrom(data, conditions, i + 1,
                    IF Match(data[i], conditions, 1)
                    THEN Append(filtered_data, data[i])
                    ELSE filtered_data)

FilterData(data, conditions) == FilterFrom(data, conditions, 1, <<>>)

InitFilter ==
    /\ \E data \in DataLists, conditions \in ConditionDicts :
           filt = [pc |-> "called", data |-> data, conditions |-> conditions,
                   result |-> <<>>, again |-> <<>>]
    /\ BuiltinIdle
    /\ RetryIdle
    /\ ParIdle
    /\ OtherToolsIdle

\* filter_data(data, conditions)
Filter ==
    /\ filt.pc = "called"
    /\ filt' = [filt EXCEPT !.pc = "filtered",
                            !.result = FilterData(filt.data, filt.conditions)]
    /\ UNCHANGED notFilt

\* filter_data(result, conditions) on the result of the first call
FilterAgain ==
    /\ filt.pc = "filtered"
    /\ filt' = [filt EXCEPT !.pc = "refiltered",
                            !.again = FilterData(filt.result, filt.conditions)]
    /\ UNCHANGED notFilt

NextFilter ==
    \/ Filter
    \/ FilterAgain

SpecFilter == InitFilter /\ [][NextFilter]_vars

(***************************************************************************)
(* Claims about filter_data                                                *)
(***************************************************************************)
\* The record has every condition column, with the condition's value.
Satisfies(record, conditions) ==
    \A k \in 1..Len(conditions) :
        /\ conditions[k][1] \in DOMAIN record
        /\ record[conditions[k][1]] = conditions[k][2]

\* The indexes of the records of data that satisfy the conditions.
Kept(data, conditions) == {i \in 1..Len(data) : Satisfies(data[i], conditions)}

\* C10: the result of filter_data is the input with exactly the records
\* dropped that lack a condition column or differ from a condition value:
\* the kept records appear unaltered, in input order, once per occurrence in
\* the input; with no conditions the result is the input; and filtering the
\* result again with the same conditions gives the result back.
C10_FilterExactMatch ==
    /\ filt.pc \in {"filtered", "refiltered"} =>
          /\ Len(filt.result) = Cardinality(Kept(filt.data, filt.conditions))
          /\ \A k \in 1..Len(filt.result) :
                 \E i \in Kept(filt.data, filt.conditions) :
                     /\ Cardinality({j \in Kept(filt.data, filt.conditions) : j <= i}) = k
                     /\ filt.result[k] = filt.data[i]
          /\ filt.conditions = <<>> => filt.result = filt.data
    /\ filt.pc = "refiltered" => filt.again = filt.result

\* Of two records the first lacks the condition column and is dropped, the
\* second has the condition's value and is kept, and the result has been
\* filtered again.
C10_Witness ==
    /\ filt.pc = "refiltered"
    /\ filt.conditions = <<<<"region", 1>>>>
    /\ Len(filt.data) = 2
    /\ "region" \notin DOMAIN filt.data[1]
    /\ filt.result = <<filt.data[2]>>
    /\ filt.again = filt.result

(***************************************************************************)
(* DataTools.group_data, summarize_data, calculate_column_stats and        *)
(* aggregate_data (src/src/tools/data_tools.py).  A cell is an int         *)
(* [int |-> n], a str [str |-> s] or None; a record is a dict from the     *)
(* columns it has to cells.  `dtool` holds the arguments of one call and   *)
(* what it returned.  A float is the exact fraction [num, den] it stands   *)
(* for, and a square root is kept as [sqrt |-> fraction].                  *)
(***************************************************************************)
MaxRows == 3
IntCell(n) == [int |-> n]
StrCell(s) == [str |-> s]
IsInt0(v) == "int" \in DOMAIN v          \* isinstance(v, (int, float))
IsStr(v) == "str" \in DOMAIN v

DataColumns == {"department", "salary"}
\* sorted() of the column names
ColumnOrder == <<"department", "salary">>
DepartmentCells == {IntCell(1), StrCell("1")}
SalaryCells == {None, IntCell(1), IntCell(2), StrCell("n/a")}

Rows ==
    UNION {{r \in [S -> DepartmentCells \cup SalaryCells] :
                /\ "department" \in S => r["department"] \in DepartmentCells
                /\ "salary" \in S => r["salary"] \in SalaryCells} :
           S \in SUBSET DataColumns}
Tables == UNION {[1..n -> Rows] : n \in 0..MaxRows}

\* str(v)
DecimalDigits == <<"0", "1", "2", "3", "4", "5", "6", "7", "8", "9">>
PyStr(v) ==
    IF IsInt0(v) THEN DecimalDigits[v.int + 1]
    ELSE IF IsStr(v) THEN v.str
    ELSE "None"

GroupKeyMissingIsNone(record, group_by) ==
    PyStr(IF group_by \in DOMAIN record THEN record[group_by] ELSE None)

\* str(record.get(group_by, "Unknown"))
GroupKey(record, group_by) ==
    PyStr(IF group_by \in DOMAIN record THEN record[group_by] ELSE StrCell("Unknown"))

\* The loop of group_data from the i-th record on.
RECURSIVE GroupFrom(_, _, _, _)
GroupFrom(data, group_by, i, groups) ==
    IF i > Len(data)
    THEN groups
    ELSE LET group_key == GroupKey(data[i], group_by)
             started == IF group_key \notin DOMAIN groups
                        THEN DictSet(groups, group_key, <<>>)
                        ELSE groups
         IN  GroupFrom(data, group_by, i + 1,
                       [started EXCEPT ![group_key] = Append(@, data[i])])

GroupData(data, group_by) ==
    IF data = <<>> \/ group_by \notin DOMAIN data[1]
    THEN EmptyDict
    ELSE GroupFrom(data, group_by, 1, EmptyDict)

\* The values of a column that are present and not None, in record order.
ColumnValues(data, column) ==
    LET having == SelectSeq(data, LAMBDA r : column \in DOMAIN r /\ r[column] # None)
    IN  [i \in 1..Len(having) |-> having[i][column]]

\* The data type summarize_data gives a column, from its first value.
DataType(column_values) ==
    IF column_values = <<>> THEN "unknown"
    ELSE IF IsInt0(column_values[1]) THEN "integer"
    ELSE IF IsStr(column_values[1]) THEN "string"
    ELSE "object"

\* all_columns: the union of the keys of every record
AllColumns(data) == UNION {DOMAIN data[i] : i \in 1..Len(data)}

SampleSize == 5

SummarizeData(data) ==
    IF data = <<>>
    THEN [total_records |-> 0, columns |-> <<>>, data_types |-> EmptyDict,
          missing_values |-> EmptyDict, sample_data |-> <<>>]
    ELSE LET all_columns == AllColumns(data)
         IN  [total_records |-> Len(data),
              columns |-> SelectSeq(ColumnOrder, LAMBDA c : c \in all_columns),
              data_types |-> [c \in all_columns |-> DataType(ColumnValues(data, c))],
              missing_values |-> [c \in all_columns |->
                                     Len(data) - Len(ColumnValues(data, c))],
              sample_data |-> SubSeq(data, 1, IF Len(data) < SampleSize THEN Len(data) ELSE SampleSize)]

InitDataTools ==
    /\ \E data \in Tables : dtool = [pc |-> "ready", data |-> data]
    /\ BuiltinIdle
    /\ RetryIdle
    /\ ParIdle
    /\ FiltIdle
    /\ TrackerIdle
    /\ ObserverIdle
    /\ FileOpsIdle
    /\ AgentRunIdle

\* group_data(data, group_by)
DataGroup ==
    /\ dtool.pc = "ready"
    /\ \E group_by \in DataColumns :
           dtool' = [pc |-> "done", op |-> "group_data", data |-> dtool.data,
                     group_by |-> group_by,
                     result |-> GroupData(dtool.data, group_by)]
    /\ UNCHANGED notDataTools

\* summarize_data(data)
DataSummarize ==
    /\ dtool.pc = "ready"
    /\ dtool' = [pc |-> "done", op |-> "summarize_data", data |-> dtool.data,
                 result |-> SummarizeData(dtool.data)]
    /\ UNCHANGED notDataTools

\* Floats as exact fractions in lowest terms, den > 0.
Abs(x) == IF x < 0 THEN -x ELSE x

RECURSIVE Gcd(_, _)
Gcd(a, b) == IF b = 0 THEN a ELSE Gcd(b, a % b)

Fraction(num, den) ==
    LET g == Gcd(Abs(num), den)
    IN  [num |-> num \div g, den |-> den \div g]

Float(n) == Fraction(n, 1)                       \* float(v)
FAdd(a, b) == Fraction(a.num * b.den + b.num * a.den, a.den * b.den)
FSub(a, b) == Fraction(a.num * b.den - b.num * a.den, a.den * b.den)
FMul(a, b) == Fraction(a.num * b.num, a.den * b.den)
FDivInt(a, n) == Fraction(a.num, a.den * n)
FLessEq(a, b) == a.num * b.den <= b.num * a.den

\* sum(...) of a list of floats
RECURSIVE FSum(_)
FSum(xs) == IF xs = <<>> THEN Float(0) ELSE FAdd(xs[1], FSum(Tail(xs)))

\* xs, sorted, with x put in its place
RECURSIVE Insert(_, _)
Insert(xs, x) ==
    IF xs = <<>> THEN <<x>>
    ELSE IF FLessEq(x, xs[1]) THEN <<x>> \o xs
    ELSE <<xs[1]>> \o Insert(Tail(xs), x)

\* numeric_values.sort()
RECURSIVE SortFloats(_)
SortFloats(xs) == IF xs = <<>> THEN <<>> ELSE Insert(SortFloats(Tail(xs)), xs[1])

\* [float(v) for v in values if isinstance(v, (int, float))]
NumericValues(values) ==
    LET numbers == SelectSeq(values, IsInt0)
    IN  [i \in 1..Len(numbers) |-> Float(numbers[i].int)]

MedianUpperMiddle(numeric_values) ==
    numeric_values[(Len(numeric_values) \div 2) + 1]

\* stats.median of the sorted values
Median(numeric_values) ==
    LET n == Len(numeric_values)
    IN  IF n % 2 = 1
        THEN numeric_values[(n \div 2) + 1]
        ELSE FDivInt(FAdd(numeric_values[n \div 2], numeric_values[(n \div 2) + 1]), 2)

\* variance = sum((x - mean_val) ** 2 for x in numeric_values) / n
Variance(numeric_values, mean_val) ==
    LET n == Len(numeric_values)
        squares == [i \in 1..n |-> FMul(FSub(numeric_values[i], mean_val),
                                        FSub(numeric_values[i], mean_val))]
    IN  FDivInt(FSum(squares), n)

NumericStatsUnsorted(values) ==
    LET numeric_values == values
        n == Len(numeric_values)
        mean == FDivInt(FSum(numeric_values), n)
        median == Median(numeric_values)
        q1_idx == n \div 4
        q3_idx == (3 * n) \div 4
    IN  [mean |-> mean,
         median |-> median,
         std |-> [sqrt |-> Variance(numeric_values, mean)],
         min |-> numeric_values[1],
         max |-> numeric_values[n],
         quartiles |-> <<numeric_values[q1_idx + 1],
                         median,
                         IF q3_idx < n THEN numeric_values[q3_idx + 1]
                                       ELSE numeric_values[n]>>]

\* The numeric statistics, for a non-empty list of floats.
NumericStats(values) ==
    LET numeric_values == SortFloats(values)
        n == Len(numeric_values)
        mean == FDivInt(FSum(numeric_values), n)
        median == Median(numeric_values)
        q1_idx == n \div 4
        q3_idx == (3 * n) \div 4
    IN  [mean |-> mean,
         median |-> median,
         std |-> [sqrt |-> Variance(numeric_values, mean)],
         min |-> numeric_values[1],
         max |-> numeric_values[n],
         quartiles |-> <<numeric_values[q1_idx + 1],
                         median,
                         IF q3_idx < n THEN numeric_values[q3_idx + 1]
                                       ELSE numeric_values[n]>>]

CalculateColumnStats(data, column) ==
    IF data = <<>> \/ column \notin DOMAIN data[1]
    THEN None
    ELSE LET values == ColumnValues(data, column)
             numeric_values == NumericValues(values)
             stats == [column |-> column,
                       count |-> Len(values),
                       unique_count |-> Cardinality({values[i] : i \in 1..Len(values)}),
                       mean |-> None, median |-> None, std |-> None,
                       min |-> None, max |-> None, quartiles |-> None]
         IN  IF values = <<>>
             THEN None
             ELSE IF numeric_values = <<>>
             THEN stats
             ELSE LET numeric == NumericStats(numeric_values)
                  IN  [stats EXCEPT !.mean = numeric.mean, !.median = numeric.median,
                                    !.std = numeric.std, !.min = numeric.min,
                                    !.max = numeric.max, !.quartiles = numeric.quartiles]

\* calculate_column_stats(data, column)
DataStats ==
    /\ dtool.pc = "ready"
    /\ \E column \in DataColumns :
           dtool' = [pc |-> "done", op |-> "calculate_column_stats", data |-> dtool.data,
                     column |-> column,
                     result |-> CalculateColumnStats(dtool.data, column)]
    /\ UNCHANGED notDataTools

Operations == {"sum", "mean", "avg", "count", "min", "max", "median"}

\* The numeric agg_column values of a group, as floats.
AggValues(group_data, agg_column) ==
    LET numeric == SelectSeq(group_data,
                             LAMBDA record : agg_column \in DOMAIN record
                                             /\ IsInt0(record[agg_column]))
    IN  [i \in 1..Len(numeric) |-> Float(numeric[i][agg_column].int)]

ApplyOperationAvgUnknown(values, operation) ==
    IF operation = "sum" THEN FSum(values)
    ELSE IF operation = "mean" THEN FDivInt(FSum(values), Len(values))
    ELSE IF operation = "count" THEN Len(values)
    ELSE IF operation = "min" THEN SortFloats(values)[1]
    ELSE IF operation = "max" THEN SortFloats(values)[Len(values)]
    ELSE FSum(values)

\* The if/elif chain of aggregate_data on a non-empty list of floats.
ApplyOperation(values, operation) ==
    IF operation = "sum" THEN FSum(values)
    ELSE IF operation = "mean" \/ operation = "avg" THEN FDivInt(FSum(values), Len(values))
    ELSE IF operation = "count" THEN Len(values)
    ELSE IF operation = "min" THEN SortFloats(values)[1]
    ELSE IF operation = "max" THEN SortFloats(values)[Len(values)]
    ELSE FSum(values)

AggregateData(data, group_by, agg_column, operation) ==
    LET groups == GroupData(data, group_by)
        with_values == {group_key \in DOMAIN groups :
                            AggValues(groups[group_key], agg_column) # <<>>}
    IN  [group_key \in with_values |->
            ApplyOperation(AggValues(groups[group_key], agg_column), operation)]

\* aggregate_data(data, group_by, agg_column, operation)
DataAggregate ==
    /\ dtool.pc = "ready"
    /\ \E group_by \in DataColumns, agg_column \in DataColumns, operation \in Operations :
           dtool' = [pc |-> "done", op |-> "aggregate_data", data |-> dtool.data,
                     group_by |-> group_by, agg_column |-> agg_column,
                     operation |-> operation,
                     result |-> AggregateData(dtool.data, group_by, agg_column, operation)]
    /\ UNCHANGED notDataTools

NextDataTools ==
    \/ DataGroup
    \/ DataSummarize
    \/ DataStats
    \/ DataAggregate

SpecDataTools == InitDataTools /\ [][NextDataTools]_vars

(***************************************************************************)
(* Claims about the other DataTools methods                                *)
(***************************************************************************)
\* The records of data whose group_by value has the string form key, a
\* record without the column counting as 'Unknown'.
RecordsKeyed(data, group_by, key) ==
    SelectSeq(data, LAMBDA r :
        IF group_by \in DOMAIN r THEN PyStr(r[group_by]) = key ELSE key = "Unknown")

\* C11: when data is non-empty and its first record has the key group_by,
\* the groups of group_data partition the input: the group of a key holds
\* exactly the records whose group_by value has that string form ('Unknown'
\* for a record lacking the key), in input order, there is a group for every
\* record and no empty group; otherwise the result is empty.
C11_GroupsPartitionInput ==
    (dtool.pc = "done" /\ dtool.op = "group_data") =>
        LET data == dtool.data
            group_by == dtool.group_by
            groups == dtool.result
        IN  IF data # <<>> /\ group_by \in DOMAIN data[1]
            THEN /\ \A key \in DOMAIN groups :
                        /\ groups[key] # <<>>
                        /\ groups[key] = RecordsKeyed(data, group_by, key)
                 /\ \A i \in 1..Len(data) :
                        \E key \in DOMAIN groups :
                            /\ \E k \in 1..Len(groups[key]) : groups[key][k] = data[i]
                            /\ \A other \in DOMAIN groups \ {key} :
                                   RecordsKeyed(<<data[i]>>, group_by, other) = <<>>
            ELSE DOMAIN groups = {}

\* Three records grouped by department: one has the int 1, one the str '1'
\* and the last has no department, which gives the groups '1' and 'Unknown'.
C11_Witness ==
    /\ dtool.pc = "done"
    /\ dtool.op = "group_data"
    /\ dtool.group_by = "department"
    /\ Len(dtool.data) = 3
    /\ "department" \in DOMAIN dtool.data[1]
    /\ dtool.data[1]["department"] = IntCell(1)
    /\ "department" \in DOMAIN dtool.data[2]
    /\ dtool.data[2]["department"] = StrCell("1")
    /\ "department" \notin DOMAIN dtool.data[3]
    /\ DOMAIN dtool.result = {"1", "Unknown"}
    /\ Len(dtool.result["1"]) = 2

\* C12: for every non-empty list of records summarize_data reports as
\* columns exactly the keys of the first record, and data_types and
\* missing_values have exactly those keys.
C12_ColumnsAreFirstRecordKeys ==
    (dtool.pc = "done" /\ dtool.op = "summarize_data" /\ dtool.data # <<>>) =>
        /\ {dtool.result.columns[i] : i \in 1..Len(dtool.result.columns)} = DOMAIN dtool.data[1]
        /\ Len(dtool.result.columns) = Cardinality(DOMAIN dtool.data[1])
        /\ DOMAIN dtool.result.data_types = DOMAIN dtool.data[1]
        /\ DOMAIN dtool.result.missing_values = DOMAIN dtool.data[1]

\* The non-null values of the column in the data of the call.
NonNull == ColumnValues(dtool.data, dtool.column)
NonNullInts == [i \in 1..Len(NonNull) |-> NonNull[i].int]

RECURSIVE IntSum(_)
IntSum(xs) == IF xs = <<>> THEN 0 ELSE xs[1] + IntSum(Tail(xs))

\* The k-th smallest of the integers xs.
Ranked(xs, k) ==
    CHOOSE x \in {xs[i] : i \in 1..Len(xs)} :
        /\ Cardinality({i \in 1..Len(xs) : xs[i] < x}) < k
        /\ k <= Cardinality({i \in 1..Len(xs) : xs[i] <= x})

\* count, mean, median and standard deviation of the result are those of the
\* n integers xs: mean = sum / n, twice the median is the sum of the two
\* middle values (the middle value counted twice when n is odd), and the
\* square of the standard deviation is (n * sum of squares - sum squared) / n^2.
StatsAreThoseOf(stats, xs) ==
    LET n == Len(xs)
        total == IntSum(xs)
        squares == IntSum([i \in 1..n |-> xs[i] * xs[i]])
        low == Ranked(xs, (n + 1) \div 2)
        high == Ranked(xs, (n \div 2) + 1)
    IN  /\ stats # None
        /\ stats.count = n
        /\ stats.mean.num * n = total * stats.mean.den
        /\ stats.median.num * 2 = (low + high) * stats.median.den
        /\ stats.std.sqrt.num * n * n = (n * squares - total * total) * stats.std.sqrt.den

\* C13 as stated: for any column whose n >= 1 non-null values are all
\* numbers, calculate_column_stats returns count = n, mean = sum / n, the
\* median of the sorted values and the population standard deviation.
C13_StatsOfAnyNumericColumn ==
    (/\ dtool.pc = "done"
     /\ dtool.op = "calculate_column_stats"
     /\ Len(NonNull) >= 1
     /\ \A i \in 1..Len(NonNull) : IsInt0(NonNull[i]))
    => StatsAreThoseOf(dtool.result, NonNullInts)

\* C13, amended: the same for a column that is a key of the first record;
\* for a column the first record lacks the call returns None.
C13_StatsOfNumericColumnOfFirstRecord ==
    (/\ dtool.pc = "done"
     /\ dtool.op = "calculate_column_stats"
     /\ Len(NonNull) >= 1
     /\ \A i \in 1..Len(NonNull) : IsInt0(NonNull[i]))
    => IF dtool.column \in DOMAIN dtool.data[1]
       THEN StatsAreThoseOf(dtool.result, NonNullInts)
       ELSE dtool.result = None

\* Salaries 2, 1, 2 in that order: the median 2 is the middle of the sorted
\* values, the mean is 5/3 and the variance 2/9.
C13_Witness ==
    /\ dtool.pc = "done"
    /\ dtool.op = "calculate_column_stats"
    /\ dtool.column = "salary"
    /\ NonNull = <<IntCell(2), IntCell(1), IntCell(2)>>
    /\ dtool.result # None
    /\ dtool.result.count = 3
    /\ dtool.result.mean = [num |-> 5, den |-> 3]
    /\ dtool.result.median = [num |-> 2, den |-> 1]
    /\ dtool.result.std = [sqrt |-> [num |-> 2, den |-> 9]]

\* The integers that are the numeric agg_column values of a group.
GroupInts(group_data, agg_column) ==
    LET numeric == SelectSeq(group_data,
                             LAMBDA record : agg_column \in DOMAIN record
                                             /\ "int" \in DOMAIN record[agg_column])
    IN  [i \in 1..Len(numeric) |-> numeric[i][agg_column].int]

\* value is the operation applied to the integers xs.
IsAggregateOf(value, xs, operation) ==
    CASE operation = "sum" -> value.num = IntSum(xs) * value.den
      [] operation \in {"mean", "avg"} -> value.num * Len(xs) = IntSum(xs) * value.den
      [] operation = "count" -> value = Len(xs)
      [] operation = "min" -> value.num = Ranked(xs, 1) * value.den
      [] operation = "max" -> value.num = Ranked(xs, Len(xs)) * value.den
      [] OTHER -> value.num = IntSum(xs) * value.den

\* C14: the result of aggregate_data has a key for exactly the groups of
\* group_data that hold a numeric agg_column value, and its value there is
\* the operation (sum, mean or avg, count, min, max; anything else as sum)
\* applied to that group's numeric agg_column values.
C14_AggregatePerGroup ==
    (dtool.pc = "done" /\ dtool.op = "aggregate_data") =>
        LET groups == GroupData(dtool.data, dtool.group_by)
        IN  /\ DOMAIN dtool.result \subseteq DOMAIN groups
            /\ \A key \in DOMAIN groups :
                   LET xs == GroupInts(groups[key], dtool.agg_column)
                   IN  IF xs = <<>>
                       THEN key \notin DOMAIN dtool.result
                       ELSE /\ key \in DOMAIN dtool.result
                            /\ IsAggregateOf(dtool.result[key], xs, dtool.operation)

\* The salaries 1 and 2 of department '1' averaged with 'avg', while the
\* group 'Unknown' has no numeric salary and is absent from the result.
C14_Witness ==
    /\ dtool.pc = "done"
    /\ dtool.op = "aggregate_data"
    /\ dtool.group_by = "department"
    /\ dtool.agg_column = "salary"
    /\ dtool.operation = "avg"
    /\ DOMAIN GroupData(dtool.data, "department") = {"1", "Unknown"}
    /\ DOMAIN dtool.result = {"1"}
    /\ dtool.result["1"] = [num |-> 3, den |-> 2]

(***************************************************************************)
(* ConversationTracker (src/src/utils/conversation_tracker.py).  `tracker` *)
(* holds the fields of one tracker, the conversation files it has written  *)
(* in `saved`, and the last call made on it with the exception it raised.  *)
(***************************************************************************)
MaxMessages == 1
ConversationIds == {"c1", "c2"}
AgentIds == {"alice", "bob"}
ParticipantLists == {<<"alice">>}
Contents == {"hello"}
ResponseTimes == {None, IntCell(2)}

\* len(content)
StrLen(content) ==
    CASE content = "hi" -> 2
      [] content = "hello" -> 5
      [] OTHER -> 0

\* The fields of a tracker, `call` apart.
TrackerFields(t) ==
    [conversations |-> t.conversations, agents |-> t.agents,
     interactions |-> t.interactions, active_conversation |-> t.active_conversation,
     saved |-> t.saved]

\* register_agent(agent_id, agent_info)
RegisterAgent(t, agent_id) ==
    [t EXCEPT !.agents = DictSet(@, agent_id,
                                 [registered_at |-> now, message_count |-> 0,
                                  total_response_time |-> 0])]

\* start_conversation(conversation_id, participants, topic)
StartConversation(t, conversation_id, participants) ==
    [t EXCEPT !.conversations =
                  DictSet(@, conversation_id,
                          [id |-> conversation_id,
                           participants |-> participants,
                           topic |-> None,
                           started_at |-> now,
                           messages |-> <<>>,
                           status |-> "active",
                           statistics |->
                               [total_messages |-> 0,
                                participant_stats |->
                                    [p \in {participants[i] : i \in 1..Len(participants)} |->
                                        [message_count |-> 0, avg_response_time |-> Float(0)]]]]),
              !.active_conversation = conversation_id]

\* The participant statistics of a sender after one more message.
UpdateStats(stats, response_time) ==
    LET count == stats.message_count + 1
    IN  [message_count |-> count,
         avg_response_time |->
             IF response_time # None /\ response_time.int # 0
             THEN FDivInt(FAdd(FMul(stats.avg_response_time, Float(count - 1)),
                               Float(response_time.int)), count)
             ELSE stats.avg_response_time]

\* The body of add_message after the check of conversation_id.
AppendMessage(t, conversation_id, sender, content, response_time) ==
    LET conversation == t.conversations[conversation_id]
        message == [id |-> Len(conversation.messages) + 1,
                    timestamp |-> now, sender |-> sender, content |-> content,
                    type |-> "text", metadata |-> EmptyDict,
                    response_time |-> response_time]
        participant_stats == conversation.statistics.participant_stats
        updated == [conversation EXCEPT
                       !.messages = Append(@, message),
                       !.statistics.total_messages = @ + 1,
                       !.statistics.participant_stats =
                           IF sender \in DOMAIN participant_stats
                           THEN [participant_stats EXCEPT
                                    ![sender] = UpdateStats(@, response_time)]
                           ELSE participant_stats]
        interaction == [timestamp |-> now, conversation_id |-> conversation_id,
                        sender |-> sender, message_type |-> "text",
                        content_length |-> StrLen(content),
                        response_time |-> response_time]
    IN  [t EXCEPT !.conversations[conversation_id] = updated,
                  !.agents = IF sender \in DOMAIN t.agents
                             THEN [t.agents EXCEPT
                                      ![sender].message_count = @ + 1,
                                      ![sender].total_response_time =
                                          IF response_time # None
                                          THEN @ + response_time.int ELSE @]
                             ELSE t.agents,
                  !.interactions = Append(@, interaction)]

AddMessageLogsFirst(t, conversation_id, sender, content, response_time) ==
    IF conversation_id \notin DOMAIN t.conversations
    THEN [t EXCEPT !.call = [op |-> "add_message", conversation_id |-> conversation_id,
                             raised |-> "ValueError"],
                   !.interactions = Append(@, [conversation_id |-> conversation_id])]
    ELSE [AppendMessage(t, conversation_id, sender, content, response_time)
             EXCEPT !.call = [op |-> "add_message", conversation_id |-> conversation_id,
                              raised |-> "-"]]

\* add_message(conversation_id, sender, content, response_time=...)
AddMessage(t, conversation_id, sender, content, response_time) ==
    IF conversation_id \notin DOMAIN t.conversations
    THEN [t EXCEPT !.call = [op |-> "add_message", conversation_id |-> conversation_id,
                             raised |-> "ValueError"]]
    ELSE [AppendMessage(t, conversation_id, sender, content, response_time)
             EXCEPT !.call = [op |-> "add_message", conversation_id |-> conversation_id,
                              raised |-> "-"]]

\* end_conversation(conversation_id, summary); write_ok: the file could be written
EndConversation(t, conversation_id, write_ok) ==
    IF conversation_id \notin DOMAIN t.conversations
    THEN t
    ELSE LET conversation == t.conversations[conversation_id]
             ended == [id |-> conversation.id,
                       participants |-> conversation.participants,
                       topic |-> conversation.topic,
                       started_at |-> conversation.started_at,
                       messages |-> conversation.messages,
                       status |-> "ended",
                       statistics |-> conversation.statistics,
                       ended_at |-> now,
                       summary |-> None,
                       duration_seconds |-> now - conversation.started_at]
         IN  [t EXCEPT !.conversations = DictSet(@, conversation_id, ended),
                       !.saved = IF write_ok THEN DictSet(@, conversation_id, ended) ELSE @,
                       !.active_conversation =
                           IF @ = conversation_id THEN "" ELSE @]

InitTracker ==
    /\ tracker = [pc |-> "ready", conversations |-> EmptyDict, agents |-> EmptyDict,
                  interactions |-> <<>>, active_conversation |-> "", saved |-> EmptyDict,
                  call |-> [op |-> "__init__", conversation_id |-> "", raised |-> "-"]]
    /\ BuiltinIdle
    /\ RetryIdle
    /\ ParIdle
    /\ FiltIdle
    /\ DataToolsIdle
    /\ ObserverIdle
    /\ FileOpsIdle
    /\ AgentRunIdle

TrackerRegisterAgent ==
    /\ \E agent_id \in AgentIds :
           tracker' = [RegisterAgent(tracker, agent_id) EXCEPT
                          !.call = [op |-> "register_agent", conversation_id |-> "",
                                    raised |-> "-"]]
    /\ UNCHANGED notTracker

TrackerStartConversation ==
    /\ \E conversation_id \in ConversationIds, participants \in ParticipantLists :
           tracker' = [StartConversation(tracker, conversation_id, participants) EXCEPT
                          !.call = [op |-> "start_conversation",
                                    conversation_id |-> conversation_id, raised |-> "-"]]
    /\ UNCHANGED notTracker

TrackerAddMessage ==
    /\ \E conversation_id \in ConversationIds, sender \in AgentIds,
          content \in Contents, response_time \in ResponseTimes :
           /\ conversation_id \in DOMAIN tracker.conversations
                  => Len(tracker.interactions) < MaxMessages
           /\ tracker' = AddMessage(tracker, conversation_id, sender, content, response_time)
    /\ UNCHANGED notTracker

TrackerEndConversation ==
    /\ \E conversation_id \in ConversationIds, write_ok \in BOOLEAN :
           tracker' = [EndConversation(tracker, conversation_id, write_ok) EXCEPT
                          !.call = [op |-> "end_conversation",
                                    conversation_id |-> conversation_id, raised |-> "-"]]
    /\ UNCHANGED notTracker

NextTracker ==
    \/ TrackerRegisterAgent
    \/ TrackerStartConversation
    \/ TrackerAddMessage
    \/ TrackerEndConversation

SpecTracker == InitTracker /\ [][NextTracker]_vars

(***************************************************************************)
(* Claims about ConversationTracker                                        *)
(***************************************************************************)
\* C15: add_message for a conversation id the tracker does not hold raises
\* ValueError and leaves the conversations, the agent statistics, the
\* interaction records, the active conversation and the files as they were.
C15_UnknownConversationChangesNothing ==
    [][(/\ tracker'.call.op = "add_message"
        /\ tracker'.call.conversation_id \notin DOMAIN tracker.conversations)
       => /\ tracker'.call.raised = "ValueError"
          /\ TrackerFields(tracker') = TrackerFields(tracker)]_vars

\* add_message('c2', ...) has raised ValueError on a tracker that holds the
\* conversation 'c1' with one message and a registered agent.
C15_Witness ==
    /\ tracker.call = [op |-> "add_message", conversation_id |-> "c2", raised |-> "ValueError"]
    /\ DOMAIN tracker.conversations = {"c1"}
    /\ Len(tracker.interactions) = 1
    /\ tracker.agents # EmptyDict

(***************************************************************************)
(* AgentObserver (src/src/utils/observer.py).  `observer` holds the        *)
(* observations list, current_observation as the index in that list of the *)
(* dict it refers to (0 for None), the files written, the clock, the       *)
(* observe() block in progress and how the last block ended.  A block ends *)
(* normally, with an Exception whose str() is `text`, or with a            *)
(* BaseException that is no Exception (asyncio.CancelledError).            *)
(***************************************************************************)
MaxObservations == 2
MaxSteps == 1
MaxObserverClock == 2
ExceptionTexts == {"boom", ""}

\* start_observation(agent_name, prompt, context)
StartObservation(o) ==
    LET observation == [id |-> o.time, agent_name |-> "chat", prompt |-> "hello",
                        context |-> EmptyDict,
                        start_time |-> o.time, start_timestamp |-> o.time,
                        steps |-> <<>>, tools_used |-> <<>>,
                        performance |-> EmptyDict, status |-> "running"]
    IN  [o EXCEPT !.observations = Append(@, observation),
                  !.current_observation = Len(o.observations) + 1]

\* log_step(step_type, description, data)
LogStep(o) ==
    IF o.current_observation = 0
    THEN o
    ELSE [o EXCEPT !.observations[o.current_observation].steps =
                       Append(@, [timestamp |-> o.time,
                                  elapsed |-> o.time - o.observations[o.current_observation].start_timestamp,
                                  type |-> "thinking", description |-> "step",
                                  data |-> None])]

\* _save_observation(observation); write_ok: the file could be written
SaveObservation(o, observation, write_ok) ==
    IF write_ok THEN [o EXCEPT !.saved = DictSet(@, observation.id, observation)] ELSE o

\* end_observation(result=None, error=error); error is None or [str |-> text]
EndObservation(o, error, write_ok) ==
    IF o.current_observation = 0
    THEN o
    ELSE LET current == o.observations[o.current_observation]
             total_time == o.time - current.start_timestamp
             ended == [id |-> current.id, agent_name |-> current.agent_name,
                       prompt |-> current.prompt, context |-> current.context,
                       start_time |-> current.start_time,
                       start_timestamp |-> current.start_timestamp,
                       steps |-> current.steps, tools_used |-> current.tools_used,
                       end_time |-> o.time,
                       total_execution_time |-> total_time,
                       result |-> None,
                       error |-> error,
                       status |-> IF error # None /\ error.str # "" THEN "error" ELSE "completed",
                       performance |->
                           [total_time |-> total_time,
                            steps_count |-> Len(current.steps),
                            tools_used_count |-> Len(current.tools_used),
                            avg_step_time |-> IF current.steps # <<>>
                                              THEN Fraction(total_time, Len(current.steps))
                                              ELSE Float(0)]]
             updated == [o EXCEPT !.observations =
                             [i \in 1..Len(o.observations) |->
                                 IF i = o.current_observation THEN ended ELSE o.observations[i]]]
         IN  [SaveObservation(updated, ended, write_ok) EXCEPT !.current_observation = 0]

InitObserver ==
    /\ observer = [pc |-> "ready", observations |-> <<>>, current_observation |-> 0,
                   saved |-> EmptyDict, time |-> 0,
                   block |-> [observation |-> 0, alone |-> TRUE],
                   outcome |-> [kind |-> "-", text |-> "", propagated |-> "-"]]
    /\ BuiltinIdle
    /\ RetryIdle
    /\ ParIdle
    /\ FiltIdle
    /\ DataToolsIdle
    /\ TrackerIdle
    /\ FileOpsIdle
    /\ AgentRunIdle

\* The clock moves on.
ObserverTick ==
    /\ observer.pc \in {"ready", "in_block"}
    /\ observer.time < MaxObserverClock
    /\ observer' = [observer EXCEPT !.time = @ + 1]
    /\ UNCHANGED notObserver

\* async with observer.observe(...): up to the yield
ObserveEnter ==
    /\ observer.pc = "ready"
    /\ Len(observer.observations) < MaxObservations
    /\ observer' = [StartObservation(observer) EXCEPT
                       !.pc = "in_block",
                       !.block = [observation |-> Len(observer.observations) + 1,
                                  alone |-> observer.current_observation = 0],
                       !.outcome = [kind |-> "-", text |-> "", propagated |-> "-"]]
    /\ UNCHANGED notObserver

\* The block logs a step.
ObserveLogStep ==
    /\ observer.pc = "in_block"
    /\ observer.current_observation # 0
    /\ Len(observer.observations[observer.current_observation].steps) < MaxSteps
    /\ observer' = LogStep(observer)
    /\ UNCHANGED notObserver

\* The block ends normally: the else clause of observe().
ObserveExitNormally ==
    /\ observer.pc = "in_block"
    /\ \E write_ok \in BOOLEAN :
           observer' = [EndObservation(observer, None, write_ok) EXCEPT
                           !.pc = "ready",
                           !.outcome = [kind |-> "normal", text |-> "", propagated |-> "-"]]
    /\ UNCHANGED notObserver

\* The block raises an Exception: the except clause of observe().
ObserveExitException ==
    /\ observer.pc = "in_block"
    /\ \E text \in ExceptionTexts, write_ok \in BOOLEAN :
           observer' = [EndObservation(observer, StrCell(text), write_ok) EXCEPT
                           !.pc = "ready",
                           !.outcome = [kind |-> "Exception", text |-> text,
                                        propagated |-> "Exception"]]
    /\ UNCHANGED notObserver

\* The block raises a BaseException that no clause of observe() catches.
ObserveExitBaseException ==
    /\ observer.pc = "in_block"
    /\ observer' = [observer EXCEPT
                       !.pc = "ready",
                       !.outcome = [kind |-> "CancelledError", text |-> "",
                                    propagated |-> "CancelledError"]]
    /\ UNCHANGED notObserver

NextObserver ==
    \/ ObserverTick
    \/ ObserveEnter
    \/ ObserveLogStep
    \/ ObserveExitNormally
    \/ ObserveExitException
    \/ ObserveExitBaseException

SpecObserver == InitObserver /\ [][NextObserver]_vars

(***************************************************************************)
(* Claims about AgentObserver                                              *)
(***************************************************************************)
\* C16: when an observe() block entered with no other observation in
\* progress ends, its observation is still in the list and the observer has
\* no current observation; after a normal exit the status is 'completed',
\* after an Exception it is 'error', the exception's text is recorded and
\* the same exception propagates.
C16_ObserveEndsItsObservation ==
    [][(/\ observer.pc = "in_block"
        /\ observer'.pc = "ready"
        /\ observer.block.alone
        /\ observer'.outcome.kind \in {"normal", "Exception"})
       => LET k == observer.block.observation
          IN  /\ Len(observer'.observations) >= k
              /\ observer'.observations[k].id = observer.observations[k].id
              /\ observer'.current_observation = 0
              /\ observer'.outcome.kind = "normal" =>
                     observer'.observations[k].status = "completed"
              /\ observer'.outcome.kind = "Exception" =>
                     /\ observer'.observations[k].status = "error"
                     /\ observer'.observations[k].error = StrCell(observer'.outcome.text)
                     /\ observer'.outcome.propagated = "Exception"]_vars

(***************************************************************************)
(* FileOperationsTool (src/src/tools/file_operations.py).  `fileops` holds *)
(* the tool's settings, the files `fs` (path -> bytes) and directories     *)
(* `dirs` of the file system, and the last call with its arguments, its    *)
(* result and whether it sent an HTTP request.  A str is [text |-> runs]   *)
(* and a file's content [bytes |-> runs], runs being a sequence of         *)
(* <<character, repetitions>> in which neighbours differ.  The file system *)
(* is a POSIX one: writing text leaves '\n' as it is.                      *)
(***************************************************************************)
DefaultMaxSizeMb == 100
BytesPerMb == 1048576
DefaultAllowedExtensions == {".txt", ".json", ".csv", ".md", ".py"}
AllowedExtensionsArgs == {None, [list |-> {".txt"}], [list |-> {}]}

Text(runs) == [text |-> runs]
Bytes(runs) == [bytes |-> runs]

\* The paths handed to the tool: [parent, name].
FilePath(parent, name) == [parent |-> parent, name |-> name]
FilePaths ==
    {FilePath(".", "notes.txt"), FilePath("out", "data.json"), FilePath("bin", "run.sh")}

\* Path(file_path).suffix
Suffix(path) ==
    CASE path.name = "notes.txt" -> ".txt"
      [] path.name = "data.json" -> ".json"
      [] path.name = "run.sh" -> ".sh"
      [] OTHER -> ""

TextContents ==
    {Text(<<>>),
     Text(<<<<"a", 1>>>>),
     Text(<<<<"a", 1>>, <<"CR", 1>>, <<"LF", 1>>, <<"b", 1>>>>),
     Text(<<<<"x", DefaultMaxSizeMb * BytesPerMb + 1>>>>)}

\* What a server sends: bytes, 0xFF being no valid UTF-8.
DownloadContents == {Bytes(<<<<"a", 1>>>>), Bytes(<<<<"FF", 1>>>>)}

\* len() of a run-length sequence
RECURSIVE RunsLen(_)
RunsLen(runs) == IF runs = <<>> THEN 0 ELSE runs[1][2] + RunsLen(Tail(runs))

\* Neighbouring runs of the same character joined.
RECURSIVE MergeRuns(_)
MergeRuns(runs) ==
    IF Len(runs) < 2 THEN runs
    ELSE IF runs[1][1] = runs[2][1]
    THEN MergeRuns(<<<<runs[1][1], runs[1][2] + runs[2][2]>>>> \o Tail(Tail(runs)))
    ELSE <<runs[1]>> \o MergeRuns(Tail(runs))

\* Universal newlines of text-mode reading: '\r\n' and '\r' become '\n'.
RECURSIVE UniversalNewlines(_)
UniversalNewlines(runs) ==
    IF runs = <<>> THEN <<>>
    ELSE IF runs[1][1] = "CR"
    THEN IF Len(runs) >= 2 /\ runs[2][1] = "LF"
         THEN <<<<"LF", runs[1][2] + runs[2][2] - 1>>>> \o UniversalNewlines(Tail(Tail(runs)))
         ELSE <<<<"LF", runs[1][2]>>>> \o UniversalNewlines(Tail(runs))
    ELSE <<runs[1]>> \o UniversalNewlines(Tail(runs))

\* content.encode(encoding) as path.write_text stores it
EncodeText(content) == Bytes(content.text)

\* bytes that are valid UTF-8
Decodable(data) == \A i \in 1..Len(data.bytes) : data.bytes[i][1] # "FF"

\* path.read_text(encoding) of decodable bytes
DecodeText(data) == Text(MergeRuns(UniversalNewlines(data.bytes)))

\* self.allowed_extensions = allowed_extensions or [...]
AllowedExtensions(arg) ==
    IF arg = None \/ arg.list = {} THEN DefaultAllowedExtensions ELSE arg.list

\* read_text_file(file_path); io_ok: no OSError
ReadTextFile(t, path, io_ok) ==
    IF ~io_ok THEN None
    ELSE IF path \notin DOMAIN t.fs THEN None
    ELSE IF Suffix(path) \notin t.allowed_extensions THEN None
    ELSE IF RunsLen(t.fs[path].bytes) > t.max_size_bytes THEN None
    ELSE IF ~Decodable(t.fs[path]) THEN None
    ELSE DecodeText(t.fs[path])

WriteTextFileMkdirFirst(t, path, content, io) ==
    IF io = "mkdir_fails"
    THEN [fs |-> t.fs, dirs |-> t.dirs, result |-> FALSE]
    ELSE IF Suffix(path) \notin t.allowed_extensions
    THEN [fs |-> t.fs, dirs |-> t.dirs \cup {path.parent}, result |-> FALSE]
    ELSE IF io = "open_fails"
    THEN [fs |-> t.fs, dirs |-> t.dirs \cup {path.parent}, result |-> FALSE]
    ELSE IF io = "write_fails"
    THEN [fs |-> DictSet(t.fs, path, Bytes(<<>>)), dirs |-> t.dirs \cup {path.parent},
          result |-> FALSE]
    ELSE [fs |-> DictSet(t.fs, path, EncodeText(content)),
          dirs |-> t.dirs \cup {path.parent}, result |-> TRUE]

\* write_text_file(file_path, content): [fs, dirs, result].  io tells which
\* system call, if any, raises OSError; a write that fails leaves the file
\* it has opened empty.
WriteTextFile(t, path, content, io) ==
    IF Suffix(path) \notin t.allowed_extensions
    THEN [fs |-> t.fs, dirs |-> t.dirs, result |-> FALSE]
    ELSE IF io = "mkdir_fails"
    THEN [fs |-> t.fs, dirs |-> t.dirs, result |-> FALSE]
    ELSE IF io = "open_fails"
    THEN [fs |-> t.fs, dirs |-> t.dirs \cup {path.parent}, result |-> FALSE]
    ELSE IF io = "write_fails"
    THEN [fs |-> DictSet(t.fs, path, Bytes(<<>>)), dirs |-> t.dirs \cup {path.parent},
          result |-> FALSE]
    ELSE [fs |-> DictSet(t.fs, path, EncodeText(content)),
          dirs |-> t.dirs \cup {path.parent}, result |-> TRUE]

\* The dicts handed to write_json_file, as sets of <<key, value>>.
JsonDict(items) == [dict |-> items]
JsonData == {JsonDict({<<StrCell("a"), IntCell(1)>>}), JsonDict({<<IntCell(1), StrCell("a")>>})}

\* json.dumps(data, indent=indent, ensure_ascii=False): one run per item,
\* the key written as a JSON string.
JsonDumps(data) ==
    IF data = JsonDict({<<StrCell("a"), IntCell(1)>>}) THEN Text(<<<<"{\"a\": 1}", 1>>>>)
    ELSE Text(<<<<"{\"1\": \"a\"}", 1>>>>)

\* json.loads(content), None standing for JSONDecodeError
JsonLoads(content) ==
    IF content = Text(<<<<"{\"a\": 1}", 1>>>>) THEN JsonDict({<<StrCell("a"), IntCell(1)>>})
    ELSE IF content = Text(<<<<"{\"1\": \"a\"}", 1>>>>)
    THEN JsonDict({<<StrCell("1"), StrCell("a")>>})
    ELSE None

\* read_json_file(file_path)
ReadJsonFile(t, path, io_ok) ==
    LET content == ReadTextFile(t, path, io_ok)
    IN  IF content = None THEN None ELSE JsonLoads(content)

\* write_json_file(file_path, data)
WriteJsonFile(t, path, data, io) == WriteTextFile(t, path, JsonDumps(data), io)

\* download_file(url, file_path): [fs, dirs, result, requested].  response
\* is None when the request fails, else the bytes received.
DownloadFile(t, path, response, io) ==
    IF Suffix(path) \notin t.allowed_extensions
    THEN [fs |-> t.fs, dirs |-> t.dirs, result |-> FALSE, requested |-> FALSE]
    ELSE IF response = None
    THEN [fs |-> t.fs, dirs |-> t.dirs, result |-> FALSE, requested |-> TRUE]
    ELSE IF RunsLen(response.bytes) > t.max_size_bytes
    THEN [fs |-> t.fs, dirs |-> t.dirs, result |-> FALSE, requested |-> TRUE]
    ELSE IF io = "mkdir_fails"
    THEN [fs |-> t.fs, dirs |-> t.dirs, result |-> FALSE, requested |-> TRUE]
    ELSE IF io = "open_fails"
    THEN [fs |-> t.fs, dirs |-> t.dirs \cup {path.parent}, result |-> FALSE,
          requested |-> TRUE]
    ELSE IF io = "write_fails"
    THEN [fs |-> DictSet(t.fs, path, Bytes(<<>>)), dirs |-> t.dirs \cup {path.parent},
          result |-> FALSE, requested |-> TRUE]
    ELSE [fs |-> DictSet(t.fs, path, response), dirs |-> t.dirs \cup {path.parent},
          result |-> TRUE, requested |-> TRUE]

IoOutcomes == {"ok", "mkdir_fails", "open_fails", "write_fails"}

\* The file system the tool starts on: the current directory, with or
\* without a script bin/run.sh that something else has put there.
InitFileOps ==
    /\ \E arg \in AllowedExtensionsArgs, script \in BOOLEAN :
           fileops = [pc |-> "ready",
                      allowed_extensions |-> AllowedExtensions(arg),
                      max_size_bytes |-> DefaultMaxSizeMb * BytesPerMb,
                      fs |-> IF script
                             THEN DictSet(EmptyDict, FilePath("bin", "run.sh"),
                                          Bytes(<<<<"a", 1>>>>))
                             ELSE EmptyDict,
                      dirs |-> IF script THEN {".", "bin"} ELSE {"."},
                      call |-> [op |-> "__init__"]]
    /\ BuiltinIdle
    /\ RetryIdle
    /\ ParIdle
    /\ FiltIdle
    /\ DataToolsIdle
    /\ TrackerIdle
    /\ ObserverIdle
    /\ AgentRunIdle

FileRead ==
    /\ \E path \in FilePaths, io_ok \in BOOLEAN :
           fileops' = [fileops EXCEPT
                          !.call = [op |-> "read_text_file", path |-> path,
                                    result |-> ReadTextFile(fileops, path, io_ok),
                                    oserror |-> ~io_ok, requested |-> FALSE]]
    /\ UNCHANGED notFileOps

FileWrite ==
    /\ \E path \in FilePaths, content \in TextContents, io \in IoOutcomes :
           LET w == WriteTextFile(fileops, path, content, io)
           IN  fileops' = [fileops EXCEPT
                              !.fs = w.fs, !.dirs = w.dirs,
                              !.call = [op |-> "write_text_file", path |-> path,
                                        content |-> content, result |-> w.result,
                                        requested |-> FALSE]]
    /\ UNCHANGED notFileOps

FileReadJson ==
    /\ \E path \in FilePaths, io_ok \in BOOLEAN :
           fileops' = [fileops EXCEPT
                          !.call = [op |-> "read_json_file", path |-> path,
                                    result |-> ReadJsonFile(fileops, path, io_ok),
                                    oserror |-> ~io_ok, requested |-> FALSE]]
    /\ UNCHANGED notFileOps

FileWriteJson ==
    /\ \E path \in FilePaths, data \in JsonData, io \in IoOutcomes :
           LET w == WriteJsonFile(fileops, path, data, io)
           IN  fileops' = [fileops EXCEPT
                              !.fs = w.fs, !.dirs = w.dirs,
                              !.call = [op |-> "write_json_file", path |-> path,
                                        content |-> data, result |-> w.result,
                                        requested |-> FALSE]]
    /\ UNCHANGED notFileOps

FileDownload ==
    /\ \E path \in FilePaths, response \in DownloadContents \cup {None}, io \in IoOutcomes :
           LET d == DownloadFile(fileops, path, response, io)
           IN  fileops' = [fileops EXCEPT
                              !.fs = d.fs, !.dirs = d.dirs,
                              !.call = [op |-> "download_file", path |-> path,
                                        result |-> d.result, requested |-> d.requested]]
    /\ UNCHANGED notFileOps

NextFileOps ==
    \/ FileRead
    \/ FileWrite
    \/ FileReadJson
    \/ FileWriteJson
    \/ FileDownload

SpecFileOps == InitFileOps /\ [][NextFileOps]_vars

\* A read that follows a successful write of the same path and meets no
\* OSError of its own.
ReadsBack(write_op, read_op) ==
    /\ fileops.pc = "ready"
    /\ fileops.call.op = write_op
    /\ fileops.call.result = TRUE
    /\ fileops'.call.op = read_op
    /\ fileops'.call.path = fileops.call.path
    /\ ~fileops'.call.oserror

\* C17: when write_text_file(path, content) has returned True, the
\* read_text_file(path) that follows it returns exactly content, and
\* read_json_file returns the data of the successful write_json_file before it.
C17_ReadReturnsWhatWasWritten ==
    [][/\ ReadsBack("write_text_file", "read_text_file")
           => fileops'.call.result = fileops.call.content
       /\ ReadsBack("write_json_file", "read_json_file")
           => fileops'.call.result = fileops.call.content]_vars

\* The value with which a call of the given operation refuses a path.
Refusal(op) == IF op = "read_text_file" THEN None ELSE FALSE

\* C18: read_text_file, write_text_file and download_file, called with a path
\* whose extension is not in allowed_extensions, return None (read) or False
\* (write, download) and leave the file system as it was: no file is written,
\* no directory is created and no request is sent.
C18_DisallowedExtensionIsRefused ==
    [][(/\ fileops.pc = "ready"
        /\ fileops'.call.op \in {"read_text_file", "write_text_file", "download_file"}
        /\ Suffix(fileops'.call.path) \notin fileops.allowed_extensions)
       => /\ fileops'.call.result = Refusal(fileops'.call.op)
          /\ fileops'.fs = fileops.fs
          /\ fileops'.dirs = fileops.dirs
          /\ ~fileops'.call.requested]_vars

\* C18 witness: a write to bin/run.sh has been refused on a file system that
\* has no directory bin, and a file of an allowed extension exists beside it.
C18_Witness ==
    /\ fileops.pc = "ready"
    /\ fileops.call.op = "write_text_file"
    /\ fileops.call.path = FilePath("bin", "run.sh")
    /\ Suffix(fileops.call.path) \notin fileops.allowed_extensions
    /\ fileops.call.result = FALSE
    /\ "bin" \notin fileops.dirs
    /\ FilePath("out", "data.json") \in DOMAIN fileops.fs

\* C19: in every reachable state of the playground the current agent is a
\* key of the registry.
C19_CurrentAgentIsRegistered == current_agent \in DOMAIN agents

\* C20: the registry holds the three built-in agents 'chat', 'research' and
\* 'analyst', each marked built-in and bound to its original agent object,
\* whatever has been loaded at start-up and whatever commands have run.
C20_BuiltInsStayRegistered ==
    \A name \in DOMAIN BuiltInAgents :
        /\ name \in DOMAIN agents
        /\ agents[name].type = "built-in"
        /\ agents[name].agent = BuiltInAgents[name].agent

\* C21: /agent-info <name> only displays: for every name, registered or not,
\* built-in or custom, the current agent, the registry and the conversation
\* history are what they were before the command.
C21_AgentInfoChangesNothing ==
    [][last'.op = "/agent-info"
       => /\ current_agent' = current_agent
          /\ agents' = agents
          /\ conversation_history' = conversation_history]_vars

(***************************************************************************)
(* BaseAgent.run (src/src/core/base_agent.py) called on agents of every    *)
(* output type.  `agentrun` holds the calls made so far: the agent, how    *)
(* the framework call ended, and what run returned or raised.              *)
(***************************************************************************)
MaxRuns == 2

\* TemplateAgent() of src/src/agents/templates/agent_template.py
template_agent ==
    [cls |-> "TemplateAgent", name |-> "template_agent", model |-> DefaultModel,
     deps_type |-> BaseDependencies, output_type |-> AgentResult]

\* MetaAgent() of src/examples/advanced_patterns.py: no deps_type, no output_type
meta_agent ==
    [cls |-> "MetaAgent", name |-> "meta_agent", model |-> DefaultModel,
     deps_type |-> None, output_type |-> None]

RunAgents ==
    {simple_chat_agent, research_agent, data_analyst_agent, template_agent, meta_agent}

InitAgentRun ==
    /\ agentrun = [pc |-> "ready", calls |-> <<>>]
    /\ BuiltinIdle
    /\ RetryIdle
    /\ ParIdle
    /\ FiltIdle
    /\ DataToolsIdle
    /\ TrackerIdle
    /\ ObserverIdle
    /\ FileOpsIdle

\* await agent.run(prompt, dependencies)
AgentRunCall ==
    /\ agentrun.pc = "ready"
    /\ Len(agentrun.calls) < MaxRuns
    /\ \E agent \in RunAgents, outcome \in {"ok"} \cup FrameworkErrors :
           LET r == BaseAgentRun(agent, outcome)
           IN  agentrun' = [agentrun EXCEPT
                               !.calls = Append(@, [agent |-> agent, outcome |-> outcome,
                                                    raised |-> r.raised, value |-> r.value])]
    /\ UNCHANGED notAgentRun

NextAgentRun == AgentRunCall

SpecAgentRun == InitAgentRun /\ [][NextAgentRun]_vars

\* C22: when the framework call raises, BaseAgent.run of an agent with an
\* output type (ChatResponse, ResearchResult, AnalysisResult, AgentResult)
\* returns a default-constructed instance of that type and raises nothing;
\* run of an agent without output type lets the framework's exception through.
C22_FailureYieldsDefaultOutput ==
    agentrun.pc = "ready" =>
        \A i \in 1..Len(agentrun.calls) :
            LET c == agentrun.calls[i]
            IN  c.outcome # "ok" =>
                    IF c.agent.output_type # None
                    THEN /\ ~c.raised
                         /\ c.value.cls = TypeName(c.agent.output_type)
                    ELSE /\ c.raised
                         /\ c.value.cls = c.outcome

\* end_conversation has set the conversation's status to 'ended' and its file
\* holds what the tracker holds.
EndedAndWritten(t, conversation_id) ==
    /\ conversation_id \in DOMAIN t.conversations
    /\ t.conversations[conversation_id].status = "ended"
    /\ conversation_id \in DOMAIN t.saved
    /\ t.saved[conversation_id] = t.conversations[conversation_id]

\* C23: a conversation that end_conversation has ended and written to its JSON
\* file never gains a message and never returns to status 'active', whatever
\* start_conversation, add_message and end_conversation calls follow.
C23_EndedConversationIsFinal ==
    [][tracker.pc = "ready"
       => \A conversation_id \in ConversationIds :
              EndedAndWritten(tracker, conversation_id)
                  => /\ conversation_id \in DOMAIN tracker'.conversations
                     /\ tracker'.conversations[conversation_id].status = "ended"
                     /\ tracker'.conversations[conversation_id].messages
                            = tracker.conversations[conversation_id].messages]_vars

\* base ** exponent
RECURSIVE Pow(_, _)
Pow(base, exponent) == IF exponent = 0 THEN 1 ELSE base * Pow(base, exponent - 1)

\* C24: the k-th wait of retry_async follows the k-th attempt, which failed
\* with an Exception and is not the last one allowed, and lasts
\* delay * backoff_factor^(k-1); there is no wait before the first attempt,
\* after an attempt that returned, or after the final failed attempt.
C24_BackoffIsExponential ==
    retry.pc # "idle" =>
        LET n == Len(retry.calls)
            s == Len(retry.sleeps)
        IN  /\ \A k \in 1..s :
                   /\ k <= n
                   /\ retry.calls[k].cls = "Exception"
                   /\ k < retry.config.max_attempts
                   /\ retry.sleeps[k]
                          = retry.config.delay * Pow(retry.config.backoff_factor, k - 1)
            /\ retry.pc = "loop" => s = n
            /\ retry.pc = "sleeping" =>
                   /\ s = n - 1
                   /\ retry.calls[n].cls = "Exception"
                   /\ n < retry.config.max_attempts
            /\ (retry.pc \in {"returned", "raised"} /\ n > 0) => s = n - 1
            /\ n = 0 => s = 0

\* C24 witness: three attempts with delay 2 and backoff factor 3 have all
\* failed; the waits were 2 and 6 and none followed the last attempt.
C24_Witness ==
    /\ retry.pc = "raised"
    /\ retry.config = [max_attempts |-> 3, delay |-> 2, backoff_factor |-> 3]
    /\ Len(retry.calls) = 3
    /\ retry.raised = Exc("Exception", 3)
    /\ retry.sleeps = <<2, 6>>

=============================================================================
